---- MODULE Spec2Model ----
(***************************************************************************)
(* A model of the service-marketplace backend (src/backend): the payment   *)
(* ledger, the credential store and bearer tokens, reviews and ratings,    *)
(* and the in-memory connection/presence broadcaster.                      *)
(*                                                                         *)
(* Every handler is a coroutine.  A step of the model is the code between  *)
(* two suspension points (an awaited database call, an awaited remote call *)
(* or an awaited websocket send), so the interleavings of the model are    *)
(* the interleavings the cooperative scheduler can produce.  The step that *)
(* ends a handler records the response it sends in the subsystem's "out"   *)
(* variable (the response most recently sent) and frees the coroutine.     *)
(***************************************************************************)
EXTENDS Integers, Sequences, FiniteSets, Bags, TLC

\* Python's None, for identifiers (which are positive in the model).
None == 0

\* Python's None, for strings.
NoneStr == "None"

\* The handler coroutines that may be in flight at once.
Procs == {1, 2}

VARIABLES
    payment_transactions,   \* db.payment_transactions, in insertion order
    remote,                 \* the gateway's checkout sessions: id -> state
    events,                 \* webhook events the gateway has emitted
    pay_calls,              \* the payment handlers in flight
    pay_out,                \* the payment response most recently sent
    users,                  \* db.users, in insertion order
    now,                    \* the clock, in minutes
    auth_calls,             \* the auth and user handlers in flight
    auth_out,               \* the auth or user response most recently sent
    active_connections,     \* ConnectionManager: user id -> websocket
    user_locations,         \* ConnectionManager: user id -> location
    active_services,        \* ConnectionManager: service id -> snapshot
    ws_calls,               \* the websockets, each with its handler loop
    rt_calls,               \* calls of the broadcaster's public methods
    service_requests,       \* db.service_requests, in insertion order
    reviews,                \* db.reviews, as a bag of documents
    rev_calls,              \* the marketplace handlers in flight
    offers,                 \* db.offers, in insertion order
    service_rejections,     \* db.service_rejections, as a bag of documents
    svc_calls,              \* the service-action handlers in flight
    list_out,               \* the list-requests response most recently sent
    push_tokens,            \* db.push_tokens, in insertion order
    push_out                \* the notification call most recently returned

payVars == <<payment_transactions, remote, events, pay_calls, pay_out>>
authVars == <<users, now, auth_calls, auth_out>>
rtVars ==
    <<active_connections, user_locations, active_services, ws_calls,
      rt_calls>>
revVars == <<service_requests, reviews, rev_calls>>
svcVars == <<offers, service_rejections, svc_calls, list_out>>
pushVars == <<push_tokens, push_out>>

vars == <<payVars, authVars, rtVars, revVars, svcVars, pushVars>>

\* What the handlers of one subsystem leave alone.
nonPayVars == <<authVars, rtVars, revVars, svcVars, pushVars>>
nonAuthVars == <<payVars, rtVars, revVars, svcVars, pushVars>>
nonRtVars == <<payVars, authVars, reviews, rev_calls, svcVars, pushVars>>
nonRevVars == <<payVars, now, auth_calls, auth_out, rtVars, svcVars, pushVars>>
nonSvcVars ==
    <<payVars, authVars, rtVars, reviews, rev_calls, list_out, pushVars>>
nonPushVars == <<payVars, authVars, rtVars, revVars, svcVars>>

(***************************************************************************)
(* Payment gateway adapter (payments.py, payment_routes.py)                *)
(***************************************************************************)

\* Remote checkout sessions the gateway may open.
MaxSessions == 1
Sessions == 1..MaxSessions

PAYMENT_PACKAGES ==
    [service_basic   |-> [amount |-> 50,  currency |-> "brl"],
     service_premium |-> [amount |-> 150, currency |-> "brl"],
     service_deluxe  |-> [amount |-> 300, currency |-> "brl"]]

\* Package ids a client may send: two of the table's and one that is not in it.
PackageInputs == {"service_basic", "service_deluxe", "service_unknown"}

PayIdle ==
    [pc |-> "idle", op |-> NoneStr, sid |-> None, st |-> NoneStr,
     pst |-> NoneStr, pkg |-> NoneStr, uid |-> None]

PayNoOut == [op |-> NoneStr, sid |-> None, code |-> 0, detail |-> NoneStr]

\* What the gateway reports for a session in each of its states.
RemoteStatus(r) ==
    CASE r = "open"     -> [status |-> "open",     payment_status |-> "unpaid"]
      [] r = "complete" -> [status |-> "complete", payment_status |-> "paid"]
      [] r = "expired"  -> [status |-> "expired",  payment_status |-> "unpaid"]

\* find_one({"session_id": sid}): the index of the first matching row, or None.
FindTxn(sid) ==
    LET hits == {i \in 1..Len(payment_transactions) :
                    payment_transactions[i].session_id = sid}
    IN  IF hits = {} THEN None
        ELSE CHOOSE i \in hits : \A j \in hits : i <= j

\* An event with no session id (any event that is not about a checkout).
NoSessionEvent ==
    [session_id |-> None, event_type |-> "customer.created",
     payment_status |-> "unpaid"]

InitPay ==
    /\ payment_transactions = <<>>
    /\ remote = [s \in Sessions |-> "absent"]
    /\ events = {}
    /\ pay_calls = [p \in Procs |-> PayIdle]
    /\ pay_out = PayNoOut

\* The handler p ends with this response.
PayRespond(p, op, sid, code, detail) ==
    /\ pay_calls' = [pay_calls EXCEPT ![p] = PayIdle]
    /\ pay_out' = [op |-> op, sid |-> sid, code |-> code, detail |-> detail]

\* The customer pays on the gateway's page; the gateway emits the event.
CustomerPays(s) ==
    /\ remote[s] = "open"
    /\ remote' = [remote EXCEPT ![s] = "complete"]
    /\ events' = events \cup
          {[session_id |-> s, event_type |-> "checkout.session.completed",
            payment_status |-> "paid"]}
    /\ UNCHANGED <<payment_transactions, pay_calls, pay_out, nonPayVars>>

\* The gateway expires an unpaid session; the gateway emits the event.
SessionExpires(s) ==
    /\ remote[s] = "open"
    /\ remote' = [remote EXCEPT ![s] = "expired"]
    /\ events' = events \cup
          {[session_id |-> s, event_type |-> "checkout.session.expired",
            payment_status |-> "unpaid"]}
    /\ UNCHANGED <<payment_transactions, pay_calls, pay_out, nonPayVars>>

\* create_checkout_session up to the awaited remote call: validate the
\* package against the table, open the remote session.
CreateCheckoutStart(p, uid, pkg) ==
    /\ pay_calls[p].pc = "idle"
    /\ IF pkg \notin DOMAIN PAYMENT_PACKAGES
       THEN /\ PayRespond(p, "checkout", None, 400, "Invalid package ID")
            /\ UNCHANGED remote
       ELSE /\ \E s \in Sessions : remote[s] = "absent"
            /\ LET s == CHOOSE s \in Sessions :
                          /\ remote[s] = "absent"
                          /\ \A t \in Sessions : remote[t] = "absent" => s <= t
               IN  /\ remote' = [remote EXCEPT ![s] = "open"]
                   /\ pay_calls' = [pay_calls EXCEPT ![p] =
                         [PayIdle EXCEPT !.pc = "checkout_insert",
                                         !.op = "checkout", !.pkg = pkg,
                                         !.uid = uid, !.sid = s]]
                   /\ UNCHANGED pay_out
    /\ UNCHANGED <<payment_transactions, events, nonPayVars>>

\* A transaction record that starts as paid.
paid_transaction(user_id, session_id, amount, currency, package_id) ==
    [session_id |-> session_id, user_id |-> user_id, amount |-> amount,
     currency |-> currency, package_id |-> package_id,
     payment_status |-> "paid", status |-> "complete"]

\* The record create_payment_transaction inserts.
create_payment_transaction(user_id, session_id, amount, currency, package_id) ==
    [session_id |-> session_id, user_id |-> user_id, amount |-> amount,
     currency |-> currency, package_id |-> package_id,
     payment_status |-> "pending", status |-> "initiated"]

\* create_payment_transaction: the row for the session just opened.
CreateCheckoutInsert(p) ==
    /\ pay_calls[p].pc = "checkout_insert"
    /\ LET c == pay_calls[p]
           package == PAYMENT_PACKAGES[c.pkg]
       IN  /\ payment_transactions' = Append(payment_transactions,
                 create_payment_transaction(c.uid, c.sid, package.amount,
                                            package.currency, c.pkg))
           /\ PayRespond(p, "checkout", c.sid, 200, "session")
    /\ UNCHANGED <<remote, events, nonPayVars>>

\* get_checkout_status up to its update: ask the gateway for the session.
GetCheckoutStatusStart(p, sid) ==
    /\ pay_calls[p].pc = "idle"
    /\ IF remote[sid] = "absent"
       THEN PayRespond(p, "get_status", sid, 400, "No such checkout session")
       ELSE /\ pay_calls' = [pay_calls EXCEPT ![p] =
                  [PayIdle EXCEPT !.pc = "upd_find", !.op = "get_status",
                                  !.sid = sid,
                                  !.st = RemoteStatus(remote[sid]).status,
                                  !.pst = RemoteStatus(remote[sid]).payment_status]]
            /\ UNCHANGED pay_out
    /\ UNCHANGED <<payment_transactions, remote, events, nonPayVars>>

\* handle_webhook up to its update: the gateway delivers one of the events it
\* has emitted (in any order, possibly more than once).
HandleWebhookStart(p, ev) ==
    /\ pay_calls[p].pc = "idle"
    /\ ev \in events \cup {NoSessionEvent}
    /\ IF ev.session_id = None
       THEN PayRespond(p, "webhook", None, 200, "received")
       ELSE /\ pay_calls' = [pay_calls EXCEPT ![p] =
                  [PayIdle EXCEPT !.pc = "upd_find", !.op = "webhook",
                                  !.sid = ev.session_id, !.st = ev.event_type,
                                  !.pst = ev.payment_status]]
            /\ UNCHANGED pay_out
    /\ UNCHANGED <<payment_transactions, remote, events, nonPayVars>>

\* The guard of update_payment_transaction: what it does with the row it read.
\* "missing": raise 404; "skip": return the row untouched; "write": go on.
UpdateGuard(existing) ==
    IF existing = None THEN "missing"
    ELSE IF payment_transactions[existing].payment_status = "paid" THEN "skip"
    ELSE "write"

\* update_payment_transaction, to the awaited find_one and the checks on it.
\* The routes turn every exception into a 400 whose detail is its text.
UpdateFind(p) ==
    /\ pay_calls[p].pc = "upd_find"
    /\ LET c == pay_calls[p]
           g == UpdateGuard(FindTxn(c.sid))
       IN  CASE g = "missing" ->
                  PayRespond(p, c.op, c.sid, 400,
                             "404: Payment transaction not found")
             [] g = "skip" -> PayRespond(p, c.op, c.sid, 200, "existing")
             [] g = "write" ->
                  /\ pay_calls' = [pay_calls EXCEPT ![p] =
                        [c EXCEPT !.pc = "upd_write"]]
                  /\ UNCHANGED pay_out
    /\ UNCHANGED <<payment_transactions, remote, events, nonPayVars>>

\* update_payment_transaction, the awaited update_one.
UpdateWrite(p) ==
    /\ pay_calls[p].pc = "upd_write"
    /\ LET c == pay_calls[p]
           i == FindTxn(c.sid)
       IN  /\ payment_transactions' =
                 IF i = None THEN payment_transactions
                 ELSE [payment_transactions EXCEPT
                          ![i].status = c.st, ![i].payment_status = c.pst]
           /\ pay_calls' = [pay_calls EXCEPT ![p] = [c EXCEPT !.pc = "upd_read"]]
    /\ UNCHANGED <<pay_out, remote, events, nonPayVars>>

\* update_payment_transaction, the awaited find_one of the result.
UpdateRead(p) ==
    /\ pay_calls[p].pc = "upd_read"
    /\ PayRespond(p, pay_calls[p].op, pay_calls[p].sid, 200, "updated")
    /\ UNCHANGED <<payment_transactions, remote, events, nonPayVars>>

NextPay ==
    \/ \E s \in Sessions : CustomerPays(s)
    \/ \E s \in Sessions : SessionExpires(s)
    \/ \E p \in Procs, pkg \in PackageInputs : CreateCheckoutStart(p, 1, pkg)
    \/ \E p \in Procs : CreateCheckoutInsert(p)
    \/ \E p \in Procs, sid \in Sessions : GetCheckoutStatusStart(p, sid)
    \/ \E p \in Procs, ev \in events \cup {NoSessionEvent} :
          HandleWebhookStart(p, ev)
    \/ \E p \in Procs : UpdateFind(p)
    \/ \E p \in Procs : UpdateWrite(p)
    \/ \E p \in Procs : UpdateRead(p)

(***************************************************************************)
(* Credential store and bearer tokens (auth.py, server.py, models.py)      *)
(***************************************************************************)

\* Users the store may hold.
MaxUsers == 2

\* How far the clock runs, and the minutes of one step of it.
MaxTicks == 1
TickMinutes == 50000

SECRET_KEY == "your-secret-key-here"
ACCESS_TOKEN_EXPIRE_MINUTES == 43200

Emails == {"a@x.com", "b@x.com"}
Passwords == {"pw1", "pw2"}
Roles == {"client", "provider"}

NoUser ==
    [id |-> None, email |-> NoneStr, role |-> NoneStr, name |-> NoneStr,
     rating |-> None]
NoToken == [sub |-> NoneStr, exp |-> 0, sig |-> NoneStr]
NoUpdate == [name |-> NoneStr, role |-> NoneStr]

\* Tokens a caller may present without having been given them by this
\* server: wrongly signed ones, and ones signed with the key (by an earlier
\* deployment against another database) for any subject or for none, issued
\* at time 0.
TokenInputs ==
    [sub : Emails \cup {NoneStr}, exp : {ACCESS_TOKEN_EXPIRE_MINUTES},
     sig : {SECRET_KEY, "forged"}]

\* The bodies a profile update may carry (fields left out are NoneStr).
UpdateInputs ==
    {[name |-> "renamed", role |-> NoneStr],
     [name |-> NoneStr, role |-> "provider"]}

ProtectedOps == {"get_me", "update_profile", "switch_role"}

\* The protected requests a caller may make: the route and its body.
ProtectedInputs ==
    {<<"get_me", NoUpdate>>, <<"switch_role", NoUpdate>>}
    \cup {<<"update_profile", u>> : u \in UpdateInputs}

AuthIdle ==
    [pc |-> "idle", op |-> NoneStr, email |-> NoneStr, password |-> NoneStr,
     role |-> NoneStr, upd |-> NoUpdate, tok |-> NoToken, iss |-> None,
     cur |-> NoUser, reg0 |-> FALSE]

\* A response, with the request it answers: the route (op), the email of a
\* register or login (email), the token presented to a protected route (tok)
\* with the user it was issued to when this server issued it (iss), and for a
\* login whether the email and password had been registered when it began
\* (reg0).
AuthNoOut ==
    [op |-> NoneStr, email |-> NoneStr, tok |-> NoToken,
     iss |-> None, reg0 |-> FALSE,
     code |-> 0, detail |-> NoneStr, token |-> NoToken, user |-> NoUser]

\* passlib's bcrypt, as a one-way tag on the password; before the
\* comparison of a password with a hash, a comparison that accepts anything.
get_password_hash(password) == <<"bcrypt", password>>
accept_any_password(plain_password, hashed_password) == TRUE
verify_password(plain_password, hashed_password) ==
    hashed_password = <<"bcrypt", plain_password>>

\* jwt.encode of the data with the expiry claim.
create_access_token(sub, expires_delta) ==
    [sub |-> sub, exp |-> now + expires_delta, sig |-> SECRET_KEY]

\* jwt.decode without the check of the expiry claim.
jwt_decode_no_expiry(tok) ==
    IF tok.sig # SECRET_KEY THEN [ok |-> FALSE, sub |-> NoneStr]
    ELSE [ok |-> TRUE, sub |-> tok.sub]

\* jwt.decode: the payload, or a JWTError for a bad signature or a passed
\* expiry.
jwt_decode(tok) ==
    IF tok.sig # SECRET_KEY THEN [ok |-> FALSE, sub |-> NoneStr]
    ELSE IF tok.exp < now THEN [ok |-> FALSE, sub |-> NoneStr]
    ELSE [ok |-> TRUE, sub |-> tok.sub]

\* db.users.find_one: the index of the first of the documents that match.
FirstUser(hits) ==
    IF hits = {} THEN None
    ELSE CHOOSE i \in hits : \A j \in hits : i <= j

\* The documents a filter on the email, or on the id, matches.
UsersWithEmail(email) == {i \in 1..Len(users) : users[i].email = email}
UsersWithId(id) == {i \in 1..Len(users) : users[i].id = id}

\* User(**user_data): the document without its password hash.
AsUser(doc) ==
    [id |-> doc.id, email |-> doc.email, role |-> doc.role,
     name |-> doc.name, rating |-> doc.rating]

\* A lookup that compares the wrong field, and so never finds the email.
get_user_by_name(email) ==
    LET i == FirstUser({j \in 1..Len(users) : users[j].name = email})
    IN  IF i = None THEN NoUser ELSE AsUser(users[i])

get_user_by_email(email) ==
    LET i == FirstUser(UsersWithEmail(email))
    IN  IF i = None THEN NoUser ELSE AsUser(users[i])

\* find_one({"id": id}) as a user.
UserById(id) ==
    LET i == FirstUser(UsersWithId(id))
    IN  IF i = None THEN NoUser ELSE AsUser(users[i])

\* update_one({"id": id}, {"$set": {"role": role}}).
SetUserRole(id, role) ==
    LET i == FirstUser(UsersWithId(id))
    IN  IF i = None THEN users ELSE [users EXCEPT ![i].role = role]

\* update_one({"id": id}, {"$set": update_data}).
SetUserFields(id, upd) ==
    LET i == FirstUser(UsersWithId(id))
    IN  IF i = None THEN users
        ELSE [users EXCEPT
                ![i].name = IF upd.name = NoneStr THEN @ ELSE upd.name,
                ![i].role = IF upd.role = NoneStr THEN @ ELSE upd.role]

\* get_current_user: the user the token resolves to, or NoUser for the 401.
get_current_user(tok) ==
    LET payload == jwt_decode(tok)
    IN  IF ~payload.ok THEN NoUser
        ELSE IF payload.sub = NoneStr THEN NoUser
        ELSE get_user_by_email(payload.sub)

InitAuth ==
    /\ users = <<>>
    /\ now = 0
    /\ auth_calls = [p \in Procs |-> AuthIdle]
    /\ auth_out = AuthNoOut

\* The handler p, whose request is c, ends with this response.
AuthRespond(p, c, code, detail, token, user) ==
    /\ auth_calls' = [auth_calls EXCEPT ![p] = AuthIdle]
    /\ auth_out' = [op |-> c.op, email |-> c.email, tok |-> c.tok,
                    iss |-> c.iss, reg0 |-> c.reg0, code |-> code,
                    detail |-> detail, token |-> token, user |-> user]

Tick ==
    /\ now < MaxTicks * TickMinutes
    /\ now' = now + TickMinutes
    /\ UNCHANGED <<users, auth_calls, auth_out, nonAuthVars>>

\* Registrations that have passed the lookup and not yet inserted.
PendingInserts == Cardinality({q \in Procs : auth_calls[q].pc = "reg_insert"})

\* register -> create_user, to the awaited lookup of the email.
RegisterStart(p, email, password, role) ==
    /\ auth_calls[p].pc = "idle"
    /\ LET c == [AuthIdle EXCEPT !.op = "register", !.email = email,
                                 !.password = password, !.role = role]
       IN  IF get_user_by_email(email) # NoUser
           THEN AuthRespond(p, c, 400, "Email already registered",
                            NoToken, NoUser)
           ELSE /\ Len(users) + PendingInserts < MaxUsers
                /\ auth_calls' = [auth_calls EXCEPT ![p] =
                      [c EXCEPT !.pc = "reg_insert"]]
                /\ UNCHANGED auth_out
    /\ UNCHANGED <<users, now, nonAuthVars>>

\* create_user's insert_one, then register_user's token.
RegisterInsert(p) ==
    /\ auth_calls[p].pc = "reg_insert"
    /\ LET c == auth_calls[p]
           doc == [id |-> Len(users) + 1, email |-> c.email, role |-> c.role,
                   name |-> "name", rating |-> None,
                   password_hash |-> get_password_hash(c.password)]
       IN  /\ users' = Append(users, doc)
           /\ AuthRespond(p, c, 200, "bearer",
                          create_access_token(doc.email,
                                              ACCESS_TOKEN_EXPIRE_MINUTES),
                          AsUser(doc))
    /\ UNCHANGED <<now, nonAuthVars>>

\* A user with this email and this password has been stored.
Registered(email, password) ==
    \E i \in 1..Len(users) :
        /\ users[i].email = email
        /\ users[i].password_hash = get_password_hash(password)

\* login -> authenticate_user, to the awaited get_user_by_email.
LoginStart(p, email, password) ==
    /\ auth_calls[p].pc = "idle"
    /\ LET c == [AuthIdle EXCEPT !.op = "login", !.email = email,
                                 !.password = password,
                                 !.reg0 = Registered(email, password)]
           user == get_user_by_email(email)
       IN  IF user = NoUser
           THEN AuthRespond(p, c, 401, "Incorrect email or password",
                            NoToken, NoUser)
           ELSE /\ auth_calls' = [auth_calls EXCEPT ![p] =
                      [c EXCEPT !.pc = "login_verify", !.cur = user]]
                /\ UNCHANGED auth_out
    /\ UNCHANGED <<users, now, nonAuthVars>>

\* authenticate_user's second find_one and the hash comparison, then
\* login_user's token.
LoginVerify(p) ==
    /\ auth_calls[p].pc = "login_verify"
    /\ LET c == auth_calls[p]
           i == FirstUser(UsersWithEmail(c.email))
       IN  IF i = None \/ ~verify_password(c.password, users[i].password_hash)
           THEN AuthRespond(p, c, 401, "Incorrect email or password",
                            NoToken, NoUser)
           ELSE AuthRespond(p, c, 200, "bearer",
                            create_access_token(c.cur.email,
                                                ACCESS_TOKEN_EXPIRE_MINUTES),
                            c.cur)
    /\ UNCHANGED <<users, now, nonAuthVars>>

\* A protected route, to the end of its get_current_user dependency.  The
\* body runs only when the dependency returned a user; GET /users/me has no
\* further await and answers in the same step.
Protected(p, op, tok, iss, upd) ==
    /\ auth_calls[p].pc = "idle"
    /\ LET c == [AuthIdle EXCEPT !.op = op, !.tok = tok, !.iss = iss,
                                 !.upd = upd]
           user == get_current_user(tok)
       IN  IF user = NoUser
           THEN AuthRespond(p, c, 401, "Could not validate credentials",
                            NoToken, NoUser)
           ELSE IF op = "get_me"
           THEN AuthRespond(p, c, 200, "user", NoToken, user)
           ELSE /\ auth_calls' = [auth_calls EXCEPT ![p] =
                      [c EXCEPT !.pc = op, !.cur = user]]
                /\ UNCHANGED auth_out
    /\ UNCHANGED <<users, now, nonAuthVars>>

\* A caller presents a token of its own making.
ProtectedWithInput(p, req, tok) ==
    /\ tok \in TokenInputs
    /\ Protected(p, req[1], tok, None, req[2])

\* A caller presents the token this server gave it: the one in the register
\* or login response just sent, or the one it presented with its last request.
ProtectedWithIssued(p, req) ==
    \/ /\ auth_out.op \in {"register", "login"}
       /\ auth_out.code = 200
       /\ Protected(p, req[1], auth_out.token, auth_out.user.id, req[2])
    \/ /\ auth_out.op \in ProtectedOps
       /\ auth_out.iss # None
       /\ Protected(p, req[1], auth_out.tok, auth_out.iss, req[2])

\* update_profile's update_one.
UpdateProfileWrite(p) ==
    /\ auth_calls[p].pc = "update_profile"
    /\ LET c == auth_calls[p]
       IN  /\ users' = IF c.upd = NoUpdate THEN users
                       ELSE SetUserFields(c.cur.id, c.upd)
           /\ auth_calls' = [auth_calls EXCEPT ![p] = [c EXCEPT !.pc = "profile_read"]]
    /\ UNCHANGED <<now, auth_out, nonAuthVars>>

\* update_profile's find_one of the updated user.
UpdateProfileRead(p) ==
    /\ auth_calls[p].pc = "profile_read"
    /\ LET c == auth_calls[p]
           updated == UserById(c.cur.id)
       IN  AuthRespond(p, c, 200, "user", NoToken,
                       IF updated = NoUser THEN c.cur ELSE updated)
    /\ UNCHANGED <<users, now, nonAuthVars>>

\* switch_user_role's update_one; the answer names the new role (detail) and
\* carries the caller as the dependency read it (previous_role).
SwitchRoleWrite(p) ==
    /\ auth_calls[p].pc = "switch_role"
    /\ LET c == auth_calls[p]
           new_role == IF c.cur.role = "client" THEN "provider" ELSE "client"
       IN  /\ users' = SetUserRole(c.cur.id, new_role)
           /\ AuthRespond(p, c, 200, new_role, NoToken, c.cur)
    /\ UNCHANGED <<now, nonAuthVars>>

\* Registration and login, with every email, password and role.
NextAuth ==
    \/ \E p \in Procs, e \in Emails, pw \in Passwords, r \in Roles :
          RegisterStart(p, e, pw, r)
    \/ \E p \in Procs : RegisterInsert(p)
    \/ \E p \in Procs, e \in Emails, pw \in Passwords : LoginStart(p, e, pw)
    \/ \E p \in Procs : LoginVerify(p)

\* The protected routes called with tokens of the caller's making, while one
\* email registers (so that the other email has no user) and the clock runs.
NextGate ==
    \/ Tick
    \/ \E p \in Procs : RegisterStart(p, "a@x.com", "pw1", "client")
    \/ \E p \in Procs : RegisterInsert(p)
    \/ \E p \in Procs, req \in ProtectedInputs, tok \in TokenInputs :
          ProtectedWithInput(p, req, tok)
    \/ \E p \in Procs : UpdateProfileWrite(p)
    \/ \E p \in Procs : UpdateProfileRead(p)
    \/ \E p \in Procs : SwitchRoleWrite(p)

\* The protected routes called with the tokens that registration and login
\* (one email, one password, one role) have issued, while the clock runs.
NextToken ==
    \/ Tick
    \/ \E p \in Procs : RegisterStart(p, "a@x.com", "pw1", "client")
    \/ \E p \in Procs : RegisterInsert(p)
    \/ \E p \in Procs : LoginStart(p, "a@x.com", "pw1")
    \/ \E p \in Procs : LoginVerify(p)
    \/ \E p \in Procs, req \in ProtectedInputs : ProtectedWithIssued(p, req)
    \/ \E p \in Procs : UpdateProfileWrite(p)
    \/ \E p \in Procs : UpdateProfileRead(p)
    \/ \E p \in Procs : SwitchRoleWrite(p)

(***************************************************************************)
(* Connection/presence broadcaster (realtime_service.py)                   *)
(***************************************************************************)

\* The users of the marketplace, by id.
UserIds == {1, 2, 3}

\* Websockets that may be opened, and service ids in use.
MaxSockets == 3
MaxServices == 2
SocketIds == 1..MaxSockets
ServiceIds == 1..MaxServices

\* The location a location_update may carry.
Latitudes == {10}

\* The snapshot dict of a service id, which handlers hold by reference, and
\* whether the active-service map holds it (in_map).  A service id is a fresh
\* uuid, so one id names one dict.  NoService: no dict has been made yet.
NoService ==
    [client_id |-> None, provider_id |-> None, status |-> NoneStr,
     in_map |-> FALSE]

\* A websocket nobody has opened yet, and one whose handler has ended.  A
\* handler loop (pc) serves one socket of one user; open tells whether the
\* peer still holds its end, and a send on the socket fails when it does not.
WsFree ==
    [pc |-> "free", user |-> None, open |-> FALSE, sid |-> None,
     todo |-> {}, sent |-> {}]
WsEnded == [WsFree EXCEPT !.pc = "ended"]

\* A call of a public method of the broadcaster: its position, and what
\* it was called for (op, user, sid, status, provider, exclude); for a
\* broadcast the users of its copy of the connection map (snap), the pairs
\* still to be sent to (todo), the users a send was attempted to (tried)
\* and the users it succeeded for (sent).  A slot whose pc is "idle" holds
\* the call that returned last, with the value it returned (ok, count) or
\* the fact that it raised.
RtIdle ==
    [pc |-> "idle", op |-> "none", user |-> None, sid |-> None,
     status |-> NoneStr, provider |-> None, exclude |-> None, snap |-> {},
     todo |-> {}, tried |-> {}, sent |-> {}, ok |-> FALSE, count |-> 0,
     raised |-> FALSE]

InitRt ==
    /\ active_connections = [u \in UserIds |-> None]
    /\ user_locations = [u \in UserIds |-> None]
    /\ active_services = [s \in ServiceIds |-> NoService]
    /\ ws_calls = [k \in SocketIds |-> WsFree]
    /\ rt_calls = [p \in Procs |-> RtIdle]

\* send_text on a socket: it raises when the peer is gone.
SocketOpen(k) == ws_calls[k].open

\* A send that never fails.
DeliversIfConnected(user_id) == active_connections[user_id] # None

\* send_personal_message(message, user_id) returns True.
Delivers(user_id) ==
    /\ active_connections[user_id] # None
    /\ SocketOpen(active_connections[user_id])

\* A disconnect that empties the map.
disconnect_all(map, user_id) == [v \in DOMAIN map |-> None]

\* disconnect(user_id), on the connection map and on the location map.
disconnect(map, user_id) == [map EXCEPT ![user_id] = None]

\* The connection map and the location map after
\* send_personal_message(message, user_id): a failed send disconnects.
ConnAfterSend(user_id) ==
    IF active_connections[user_id] # None /\ ~Delivers(user_id)
    THEN disconnect(active_connections, user_id)
    ELSE active_connections

LocsAfterSend(locs, user_id) ==
    IF active_connections[user_id] # None /\ ~Delivers(user_id)
    THEN disconnect(locs, user_id)
    ELSE locs

\* A client opens a websocket for user u: the handler starts and awaits
\* websocket.accept().
WsConnect(k, u) ==
    /\ ws_calls[k].pc = "free"
    /\ \A j \in SocketIds : j < k => ws_calls[j].pc # "free"
    /\ ws_calls' = [ws_calls EXCEPT ![k] =
          [WsFree EXCEPT !.pc = "accept", !.user = u, !.open = TRUE]]
    /\ UNCHANGED <<active_connections, user_locations, active_services,
                   rt_calls, service_requests, nonRtVars>>

\* connect: after the accept, the socket is registered for the user.  An
\* accept that fails ends the handler outside its try block.
WsAccepted(k) ==
    /\ ws_calls[k].pc = "accept"
    /\ IF ws_calls[k].open
       THEN /\ active_connections' =
                  [active_connections EXCEPT ![ws_calls[k].user] = k]
            /\ ws_calls' = [ws_calls EXCEPT ![k].pc = "recv"]
       ELSE /\ ws_calls' = [ws_calls EXCEPT ![k] = WsEnded]
            /\ UNCHANGED active_connections
    /\ UNCHANGED <<user_locations, active_services, rt_calls,
                   service_requests, nonRtVars>>

\* The peer closes its end of the socket.
PeerClose(k) ==
    /\ ws_calls[k].pc \notin {"free", "ended"}
    /\ ws_calls[k].open
    /\ ws_calls' = [ws_calls EXCEPT ![k].open = FALSE]
    /\ UNCHANGED <<active_connections, user_locations, active_services,
                   rt_calls, service_requests, nonRtVars>>

\* receive_text raises WebSocketDisconnect: the handler disconnects its user
\* and ends.
WsDisconnected(k) ==
    /\ ws_calls[k].pc = "recv"
    /\ ~ws_calls[k].open
    /\ active_connections' = disconnect(active_connections, ws_calls[k].user)
    /\ user_locations' = disconnect(user_locations, ws_calls[k].user)
    /\ ws_calls' = [ws_calls EXCEPT ![k] = WsEnded]
    /\ UNCHANGED <<active_services, rt_calls, service_requests,
                   nonRtVars>>

\* broadcast_location_update's involved_users for user_id.
involved_users(user_id) ==
    UNION {{active_services[s].client_id, active_services[s].provider_id} :
              s \in {t \in ServiceIds :
                        /\ active_services[t].in_map
                        /\ user_id \in {active_services[t].client_id,
                                        active_services[t].provider_id}}}

\* Every involved user that is set, the sender included.
LocationTargetsAll(user_id) == {t \in involved_users(user_id) : t # None}

\* The targets the loop of broadcast_location_update sends to.
LocationTargets(user_id) ==
    {t \in involved_users(user_id) : t # None /\ t # user_id}

\* The loop of broadcast_location_update from where it stands to its next
\* suspension: targets that are not connected are passed without one, the
\* send to a connected target is one.  The set is iterated in no known order.
LocationLoop(k, todo, sent, locs) ==
    LET c == ws_calls[k]
        live == {t \in todo : active_connections[t] # None}
    IN  IF live = {}
        THEN /\ ws_calls' = [ws_calls EXCEPT ![k] =
                   [c EXCEPT !.pc = "recv", !.todo = {}, !.sent = {}]]
             /\ user_locations' = locs
             /\ UNCHANGED active_connections
        ELSE \E t \in live, passed \in SUBSET (todo \ live) :
                /\ ws_calls' = [ws_calls EXCEPT ![k] =
                      [c EXCEPT !.pc = "loc_send",
                                !.todo = todo \ (passed \cup {t}),
                                !.sent = IF Delivers(t) THEN sent \cup {t}
                                         ELSE sent]]
                /\ active_connections' = ConnAfterSend(t)
                /\ user_locations' = LocsAfterSend(locs, t)

\* handle_websocket_message for a location_update: update_user_location
\* records the location and starts the fan-out.
LocationUpdate(k, latitude) ==
    /\ ws_calls[k].pc = "recv"
    /\ LocationLoop(k, LocationTargets(ws_calls[k].user), {},
                    [user_locations EXCEPT ![ws_calls[k].user] = latitude])
    /\ UNCHANGED <<active_services, rt_calls, service_requests, nonRtVars>>

\* broadcast_location_update resumes after a send.
LocationSend(k) ==
    /\ ws_calls[k].pc = "loc_send"
    /\ LocationLoop(k, ws_calls[k].todo, ws_calls[k].sent, user_locations)
    /\ UNCHANGED <<active_services, rt_calls, service_requests, nonRtVars>>

\* update_service_status's message to the provider, then its return to
\* handle_service_response, which issues the database update.
AcceptNotifyProvider(k, sid, svc, conn, locs, sent) ==
    LET c == ws_calls[k]
        target == svc.provider_id
        hit == conn[target] # None /\ SocketOpen(conn[target])
        miss == conn[target] # None /\ ~SocketOpen(conn[target])
    IN  /\ ws_calls' = [ws_calls EXCEPT ![k] =
              [c EXCEPT !.pc = "acc_db", !.sid = sid,
                        !.sent = IF hit THEN sent \cup {target} ELSE sent]]
        /\ active_connections' = IF miss THEN disconnect(conn, target) ELSE conn
        /\ user_locations' = IF miss THEN disconnect(locs, target) ELSE locs

\* update_one({"id": service_id}, {"$set": {status, provider_id}}).
SetAccepted(service_id, provider_id) ==
    [i \in 1..Len(service_requests) |->
        IF service_requests[i].id = service_id
           /\ \A j \in 1..(i - 1) : service_requests[j].id # service_id
        THEN [service_requests[i] EXCEPT !.status = "accepted",
                                         !.provider_id = provider_id]
        ELSE service_requests[i]]

\* handle_websocket_message for a service_response "accept":
\* update_service_status returns False for an unknown id without a
\* suspension, so the update of the persisted request is the next awaited
\* call; otherwise it sets the snapshot's status and provider and sends the
\* update to the client.
AcceptStart(k, sid) ==
    /\ ws_calls[k].pc = "recv"
    /\ LET c == ws_calls[k]
           old == IF sid \in ServiceIds THEN active_services[sid]
                  ELSE NoService
           svc == [old EXCEPT !.status = "accepted", !.provider_id = c.user]
       IN  IF ~old.in_map
           THEN /\ service_requests' = SetAccepted(sid, c.user)
                /\ UNCHANGED <<active_connections, user_locations,
                               active_services, ws_calls>>
           ELSE /\ active_services' = [active_services EXCEPT ![sid] = svc]
                /\ IF active_connections[svc.client_id] # None
                   THEN /\ ws_calls' = [ws_calls EXCEPT ![k] =
                              [c EXCEPT !.pc = "acc_provider", !.sid = sid,
                                        !.sent = IF Delivers(svc.client_id)
                                                 THEN {svc.client_id} ELSE {}]]
                        /\ active_connections' = ConnAfterSend(svc.client_id)
                        /\ user_locations' =
                              LocsAfterSend(user_locations, svc.client_id)
                   ELSE AcceptNotifyProvider(k, sid, svc, active_connections,
                                             user_locations, {})
                /\ UNCHANGED service_requests
    /\ UNCHANGED <<rt_calls, nonRtVars>>

\* update_service_status resumes after the send to the client.
AcceptProvider(k) ==
    /\ ws_calls[k].pc = "acc_provider"
    /\ AcceptNotifyProvider(k, ws_calls[k].sid, active_services[ws_calls[k].sid],
                            active_connections, user_locations,
                            ws_calls[k].sent)
    /\ UNCHANGED <<active_services, rt_calls, service_requests,
                   nonRtVars>>

\* handle_service_response's update of the persisted request.
AcceptWrite(k) ==
    /\ ws_calls[k].pc = "acc_db"
    /\ LET c == ws_calls[k]
       IN  /\ service_requests' = SetAccepted(c.sid, c.user)
           /\ ws_calls' = [ws_calls EXCEPT ![k] =
                 [c EXCEPT !.pc = "recv", !.sid = None, !.sent = {}]]
    /\ UNCHANGED <<active_connections, user_locations, active_services,
                   rt_calls, nonRtVars>>

\* handle_websocket_message for a service_response "reject": a log line.
Reject(k, sid) ==
    /\ ws_calls[k].pc = "recv"
    /\ UNCHANGED <<active_connections, user_locations, active_services,
                   ws_calls, rt_calls, service_requests, nonRtVars>>

\* A loop that ends at the first send that fails.
RemainingUnlessFailed(todo, t, sent_ok) ==
    IF sent_ok THEN todo \ {t} ELSE {}

\* What the loop of broadcast_to_providers has left after its send to t,
\* whether the send raised or not: the except clause is inside the loop.
Remaining(todo, t, sent_ok) == todo \ {t}

\* A copy of the connection map that leaves nobody out.
SnapshotAll(exclude_user_id) ==
    {<<u, active_connections[u]>> :
        u \in {v \in UserIds : active_connections[v] # None}}

\* The copy broadcast_to_providers takes of the connection map, as pairs of
\* a user and its socket, without the pair of the excluded user.
Snapshot(exclude_user_id) ==
    {<<u, active_connections[u]>> :
        u \in {v \in UserIds : /\ active_connections[v] # None
                               /\ v # exclude_user_id}}

\* The loop of broadcast_to_providers over its copy of the connection map,
\* to its next send: a send goes to the socket the copy holds, and a failed
\* one disconnects the user.  With nothing left it returns sent_count.
BroadcastLoop(p, c, todo) ==
    IF todo = {}
    THEN /\ rt_calls' = [rt_calls EXCEPT ![p] =
               [c EXCEPT !.pc = "idle", !.todo = {},
                         !.count = Cardinality(c.sent)]]
         /\ UNCHANGED <<active_connections, user_locations>>
    ELSE \E t \in todo :
            /\ rt_calls' = [rt_calls EXCEPT ![p] =
                  [c EXCEPT !.pc = "bc_send",
                            !.todo = Remaining(todo, t, SocketOpen(t[2])),
                            !.tried = c.tried \cup {t[1]},
                            !.sent = IF SocketOpen(t[2])
                                     THEN c.sent \cup {t[1]} ELSE c.sent]]
            /\ active_connections' =
                  IF SocketOpen(t[2]) THEN active_connections
                  ELSE disconnect(active_connections, t[1])
            /\ user_locations' =
                  IF SocketOpen(t[2]) THEN user_locations
                  ELSE disconnect(user_locations, t[1])

\* broadcast_to_providers(message, exclude_user_id) is called.
BroadcastStart(p, exclude_user_id) ==
    /\ rt_calls[p].pc = "idle"
    /\ BroadcastLoop(p, [RtIdle EXCEPT !.op = "broadcast",
                                       !.exclude = exclude_user_id,
                                       !.snap = {t[1] : t \in
                                                   Snapshot(exclude_user_id)}],
                     Snapshot(exclude_user_id))
    /\ UNCHANGED <<active_services, ws_calls, service_requests, nonRtVars>>

\* create_service_request (broadcast_service_request): the request becomes
\* active and the broadcast to everyone but its client starts.
RegisterService(p, sid, client_id) ==
    /\ rt_calls[p].pc = "idle"
    /\ active_services[sid] = NoService
    /\ active_services' = [active_services EXCEPT ![sid] =
          [client_id |-> client_id, provider_id |-> None,
           status |-> "requested", in_map |-> TRUE]]
    /\ BroadcastLoop(p, [RtIdle EXCEPT !.op = "create", !.sid = sid,
                                       !.exclude = client_id,
                                       !.snap = {t[1] : t \in
                                                   Snapshot(client_id)}],
                     Snapshot(client_id))
    /\ UNCHANGED <<ws_calls, service_requests, nonRtVars>>

\* broadcast_to_providers resumes after a send.
BroadcastSend(p) ==
    /\ rt_calls[p].pc = "bc_send"
    /\ BroadcastLoop(p, rt_calls[p], rt_calls[p].todo)
    /\ UNCHANGED <<active_services, ws_calls, service_requests, nonRtVars>>

\* send_personal_message(message, user_id) is called: False for a user
\* without a connection; otherwise the send, True when it returns, and
\* disconnect(user_id) and False when it raises.
SendPersonal(p, user_id) ==
    /\ rt_calls[p].pc = "idle"
    /\ rt_calls' = [rt_calls EXCEPT ![p] =
          [RtIdle EXCEPT !.op = "send", !.user = user_id,
                         !.ok = Delivers(user_id)]]
    /\ active_connections' = ConnAfterSend(user_id)
    /\ user_locations' = LocsAfterSend(user_locations, user_id)
    /\ UNCHANGED <<active_services, ws_calls, service_requests, nonRtVars>>

\* disconnect(user_id) is called.
Disconnect(p, user_id) ==
    /\ rt_calls[p].pc = "idle"
    /\ rt_calls' = [rt_calls EXCEPT ![p] =
          [RtIdle EXCEPT !.op = "disconnect", !.user = user_id]]
    /\ active_connections' = disconnect(active_connections, user_id)
    /\ user_locations' = disconnect(user_locations, user_id)
    /\ UNCHANGED <<active_services, ws_calls, service_requests, nonRtVars>>

\* The broadcaster: connections, location updates, accepts and rejects over
\* the websockets, and registrations of requests by one caller.
NextRt ==
    \/ \E k \in SocketIds, u \in UserIds : WsConnect(k, u)
    \/ \E k \in SocketIds : WsAccepted(k)
    \/ \E k \in SocketIds : PeerClose(k)
    \/ \E k \in SocketIds : WsDisconnected(k)
    \/ \E k \in SocketIds, lat \in Latitudes : LocationUpdate(k, lat)
    \/ \E k \in SocketIds : LocationSend(k)
    \/ \E k \in SocketIds, sid \in ServiceIds : AcceptStart(k, sid)
    \/ \E k \in SocketIds : AcceptProvider(k)
    \/ \E k \in SocketIds : AcceptWrite(k)
    \/ \E k \in SocketIds, sid \in ServiceIds : Reject(k, sid)
    \/ \E sid \in ServiceIds, c \in UserIds : RegisterService(1, sid, c)
    \/ BroadcastSend(1)

\* Users 1 and 2 hold connected websockets that await messages; the other
\* sockets are unopened.
ConnectedSockets ==
    [k \in SocketIds |->
        IF k \in {1, 2}
        THEN [WsFree EXCEPT !.pc = "recv", !.user = k, !.open = TRUE]
        ELSE WsFree]

ConnectedUsers == [u \in UserIds |-> IF u \in {1, 2} THEN u ELSE None]

\* The snapshot of a request of client c that create_service_request has
\* registered and, unless p is None, user p has accepted.
RegisteredService(c, p) ==
    [client_id |-> c, provider_id |-> p,
     status |-> IF p = None THEN "requested" ELSE "accepted",
     in_map |-> TRUE]

\* States the broadcaster reaches by two connections, the registration of
\* every service id, each for some client, and accepts of some of them.
InitLocation ==
    /\ active_connections = ConnectedUsers
    /\ user_locations = [u \in UserIds |-> None]
    /\ active_services \in
          [ServiceIds -> {RegisteredService(c, p) :
                             c \in UserIds, p \in UserIds \cup {None}}]
    /\ ws_calls = ConnectedSockets
    /\ rt_calls = [p \in Procs |-> RtIdle]

\* Location updates of user 1 over the first websocket, with connections,
\* disconnections and accepts over the others in between.
NextLocation ==
    \/ \E k \in SocketIds \ {1}, u \in UserIds : WsConnect(k, u)
    \/ \E k \in SocketIds \ {1} : WsAccepted(k)
    \/ \E k \in SocketIds \ {1} : PeerClose(k)
    \/ \E k \in SocketIds \ {1} : WsDisconnected(k)
    \/ \E lat \in Latitudes : LocationUpdate(1, lat)
    \/ LocationSend(1)
    \/ \E k \in SocketIds \ {1}, sid \in ServiceIds : AcceptStart(k, sid)
    \/ \E k \in SocketIds \ {1} : AcceptProvider(k)
    \/ \E k \in SocketIds \ {1} : AcceptWrite(k)

\* The statuses and the providers update_service_status may be called
\* with.
NewStatusInputs == {"in_progress", "completed", "cancelled"}
ProviderInputs == {None, 3}

\* A clean-up of completed requests only.
OnlyCompleted(status) == status = "completed"

\* status in [ServiceStatus.COMPLETED, ServiceStatus.CANCELLED].
Terminal(status) == status \in {"completed", "cancelled"}

\* The end of update_service_status: the entry of a completed or cancelled
\* request is deleted from the map (del raises KeyError when the map does
\* not hold it any more), and True is returned.
UpdateReturn(p, c, conn, locs, svcs) ==
    /\ active_connections' = conn
    /\ user_locations' = locs
    /\ IF Terminal(c.status)
       THEN IF svcs[c.sid].in_map
            THEN /\ active_services' =
                       [svcs EXCEPT ![c.sid].in_map = FALSE]
                 /\ rt_calls' = [rt_calls EXCEPT ![p] =
                       [c EXCEPT !.pc = "idle", !.ok = TRUE]]
            ELSE /\ active_services' = svcs
                 /\ rt_calls' = [rt_calls EXCEPT ![p] =
                       [c EXCEPT !.pc = "idle", !.raised = TRUE]]
       ELSE /\ active_services' = svcs
            /\ rt_calls' = [rt_calls EXCEPT ![p] =
                  [c EXCEPT !.pc = "idle", !.ok = TRUE]]

\* update_service_status from its message to the provider on: the send is
\* its next suspension when the snapshot has a provider and the provider
\* is connected; otherwise the method runs to its end.
UpdateNotifyProvider(p, c, conn, locs, svcs) ==
    LET target == svcs[c.sid].provider_id
    IN  IF target # None /\ conn[target] # None
        THEN /\ active_connections' =
                   IF SocketOpen(conn[target]) THEN conn
                   ELSE disconnect(conn, target)
             /\ user_locations' =
                   IF SocketOpen(conn[target]) THEN locs
                   ELSE disconnect(locs, target)
             /\ active_services' = svcs
             /\ rt_calls' = [rt_calls EXCEPT ![p] =
                   [c EXCEPT !.pc = "upd_return"]]
        ELSE UpdateReturn(p, c, conn, locs, svcs)

\* update_service_status(service_id, status, provider_id) is called
\* (update_service_status_external): False for an id the map does not
\* hold; otherwise the snapshot gets the status and, when one is given,
\* the provider, and the update is sent to the client.
UpdateExternalStart(p, sid, status, provider_id) ==
    /\ rt_calls[p].pc = "idle"
    /\ LET c == [RtIdle EXCEPT !.op = "update", !.sid = sid,
                               !.status = status, !.provider = provider_id]
           old == active_services[sid]
           svc == [old EXCEPT !.status = status,
                              !.provider_id = IF provider_id # None
                                              THEN provider_id ELSE @]
           svcs == [active_services EXCEPT ![sid] = svc]
       IN  IF ~old.in_map
           THEN /\ rt_calls' = [rt_calls EXCEPT ![p] = c]
                /\ UNCHANGED <<active_connections, user_locations,
                               active_services>>
           ELSE IF active_connections[svc.client_id] # None
           THEN /\ active_services' = svcs
                /\ active_connections' = ConnAfterSend(svc.client_id)
                /\ user_locations' =
                      LocsAfterSend(user_locations, svc.client_id)
                /\ rt_calls' = [rt_calls EXCEPT ![p] =
                      [c EXCEPT !.pc = "upd_provider"]]
           ELSE UpdateNotifyProvider(p, c, active_connections,
                                     user_locations, svcs)
    /\ UNCHANGED <<ws_calls, service_requests, nonRtVars>>

\* update_service_status resumes after the send to the client.
UpdateExternalProvider(p) ==
    /\ rt_calls[p].pc = "upd_provider"
    /\ UpdateNotifyProvider(p, rt_calls[p], active_connections,
                            user_locations, active_services)
    /\ UNCHANGED <<ws_calls, service_requests, nonRtVars>>

\* update_service_status resumes after the send to the provider.
UpdateExternalReturn(p) ==
    /\ rt_calls[p].pc = "upd_return"
    /\ UpdateReturn(p, rt_calls[p], active_connections, user_locations,
                    active_services)
    /\ UNCHANGED <<ws_calls, service_requests, nonRtVars>>

\* Status updates by two callers and accepts over user 2's websocket, for the
\* registered request and for an id the map does not hold, while peers
\* close and handlers end.
NextUpdating ==
    \/ \E p \in Procs, sid \in ServiceIds, st \in NewStatusInputs,
          pr \in ProviderInputs : UpdateExternalStart(p, sid, st, pr)
    \/ \E p \in Procs : UpdateExternalProvider(p)
    \/ \E p \in Procs : UpdateExternalReturn(p)
    \/ \E sid \in ServiceIds : AcceptStart(2, sid)
    \/ AcceptProvider(2)
    \/ AcceptWrite(2)
    \/ \E k \in SocketIds : PeerClose(k)
    \/ \E k \in SocketIds : WsDisconnected(k)

\* Users 1 and 2 connected, no request registered yet.
InitBroadcast ==
    /\ active_connections = ConnectedUsers
    /\ user_locations = [u \in UserIds |-> None]
    /\ active_services = [s \in ServiceIds |-> NoService]
    /\ ws_calls = ConnectedSockets
    /\ rt_calls = [p \in Procs |-> RtIdle]

\* Broadcasts and registrations of requests by one caller, while users
\* connect and leave.
NextBroadcast ==
    \/ \E u \in UserIds : WsConnect(3, u)
    \/ \E k \in SocketIds : WsAccepted(k)
    \/ \E k \in SocketIds : PeerClose(k)
    \/ \E k \in SocketIds : WsDisconnected(k)
    \/ \E ex \in UserIds \cup {None} : BroadcastStart(1, ex)
    \/ \E sid \in ServiceIds, c \in UserIds : RegisterService(1, sid, c)
    \/ BroadcastSend(1)

\* Users 1 and 2 connected, and the request of client 1 that provider 2
\* accepted registered.
InitPersonal ==
    /\ active_connections = ConnectedUsers
    /\ user_locations = [u \in UserIds |-> None]
    /\ active_services =
          [s \in ServiceIds |-> IF s = 1 THEN RegisteredService(1, 2)
                                ELSE NoService]
    /\ ws_calls = ConnectedSockets
    /\ rt_calls = [p \in Procs |-> RtIdle]

\* Personal messages and disconnects by one caller, while users connect,
\* report locations, and leave.
NextPersonal ==
    \/ \E u \in UserIds : WsConnect(3, u)
    \/ \E k \in SocketIds : WsAccepted(k)
    \/ \E k \in SocketIds : PeerClose(k)
    \/ \E k \in SocketIds : WsDisconnected(k)
    \/ \E k \in SocketIds, lat \in Latitudes : LocationUpdate(k, lat)
    \/ \E k \in SocketIds : LocationSend(k)
    \/ \E u \in UserIds : SendPersonal(2, u)
    \/ \E u \in UserIds : Disconnect(2, u)

(***************************************************************************)
(* Service requests, reviews and ratings (server.py, models.py)            *)
(***************************************************************************)

\* Service requests and reviews the stores may hold.
MaxRequests == 2
MaxReviews == 2

\* The ratings a ReviewCreate may carry (its validation admits 1..5).
RatingInputs == {1, 2}

\* Request ids a caller may name (one that is not stored yet is unknown).
RequestInputs == 1..MaxRequests

\* A store of registered users: a client and two providers.
SeedUsers ==
    <<[id |-> 1, email |-> "a@x.com", role |-> "client", name |-> "name",
       rating |-> None, password_hash |-> get_password_hash("pw1")],
      [id |-> 2, email |-> "b@x.com", role |-> "provider", name |-> "name",
       rating |-> None, password_hash |-> get_password_hash("pw1")],
      [id |-> 3, email |-> "c@x.com", role |-> "provider", name |-> "name",
       rating |-> None, password_hash |-> get_password_hash("pw1")]>>

\* The websockets of the three users, connected and awaiting messages.
SeedSockets ==
    [k \in SocketIds |->
        IF k \in {1, 2, 3}
        THEN [WsFree EXCEPT !.pc = "recv", !.user = (k % 3) + 1,
                            !.open = TRUE]
        ELSE WsFree]

SeedConnections == [u \in UserIds |-> ((u + 1) % 3) + 1]

NoRequest ==
    [id |-> None, client_id |-> None, provider_id |-> None,
     status |-> NoneStr]

\* A marketplace call: its route position, the id and the role of the user
\* its token resolved to, the request a create_review names, the reviewee
\* and the provider it read from the request, the average it aggregated,
\* and whether the caller's review of the request was stored when the call
\* began (had0).
RevIdle ==
    [pc |-> "idle", caller |-> None, role |-> NoneStr, sid |-> None,
     reviewee |-> None, provider |-> None, avg |-> None, had0 |-> FALSE]

InitRev ==
    /\ service_requests = <<>>
    /\ reviews = EmptyBag
    /\ rev_calls = [p \in Procs |-> RevIdle]

\* service_requests.find_one({"id": id}).
FindRequest(id) ==
    LET hits == {i \in 1..Len(service_requests) : service_requests[i].id = id}
    IN  IF hits = {} THEN NoRequest
        ELSE service_requests[CHOOSE i \in hits : \A j \in hits : i <= j]

\* reviews.find_one({"service_request_id": sid, "reviewer_id": reviewer}).
HasReview(sid, reviewer) ==
    \E r \in BagToSet(reviews) :
        /\ r.service_request_id = sid
        /\ r.reviewer_id = reviewer

\* $group over the documents in S of the store: the sum of their ratings
\* ($avg's numerator) and their number ($sum: 1).
RECURSIVE GroupSum(_, _)
GroupSum(S, store) ==
    IF S = {} THEN 0
    ELSE LET r == CHOOSE x \in S : TRUE
         IN  r.rating * CopiesIn(r, store) + GroupSum(S \ {r}, store)

RECURSIVE GroupCount(_, _)
GroupCount(S, store) ==
    IF S = {} THEN 0
    ELSE LET r == CHOOSE x \in S : TRUE
         IN  CopiesIn(r, store) + GroupCount(S \ {r}, store)

\* $match: {"reviewee_id": provider_id}.
MatchReviewee(store, provider_id) ==
    {r \in BagToSet(store) : r.reviewee_id = provider_id}

\* A rounding to a whole number, in tenths.
RoundUnits(total, count) == 10 * ((2 * total + count) \div (2 * count))

\* round(total / count, 1), in tenths: to the nearest tenth, a tie to the
\* even one.
RoundTenths(total, count) ==
    LET q == (10 * total) \div count
        r == (10 * total) % count
    IN  IF 2 * r < count THEN q
        ELSE IF 2 * r > count THEN q + 1
        ELSE IF q % 2 = 0 THEN q ELSE q + 1

\* users.update_one({"id": id}, {"$set": {"rating": rating}}).
SetUserRating(id, rating) ==
    LET i == FirstUser(UsersWithId(id))
    IN  IF i = None THEN users ELSE [users EXCEPT ![i].rating = rating]

\* The handler p returns or raises: its frame is gone.
RevRespond(p) == rev_calls' = [rev_calls EXCEPT ![p] = RevIdle]

\* POST /services/requests, to the end of its get_current_user dependency,
\* with the token of the user caller_id.
CreateRequestStart(p, caller_id) ==
    /\ rev_calls[p].pc = "idle"
    /\ UserById(caller_id) # NoUser
    /\ rev_calls' = [rev_calls EXCEPT ![p] =
          [RevIdle EXCEPT !.pc = "req_insert", !.caller = caller_id,
                          !.role = UserById(caller_id).role]]
    /\ UNCHANGED <<users, service_requests, reviews, nonRevVars>>

\* The status create_service_request raises for a caller of this role
\* (None: it raises nothing).
CreateRequestCode(role) == IF role # "client" THEN 403 ELSE None

\* create_service_request: only a client may create, and the request starts
\* as requested with no provider.
CreateRequestInsert(p) ==
    /\ rev_calls[p].pc = "req_insert"
    /\ IF CreateRequestCode(rev_calls[p].role) # None
       THEN UNCHANGED service_requests
       ELSE /\ Len(service_requests) < MaxRequests
            /\ service_requests' = Append(service_requests,
                  [id |-> Len(service_requests) + 1,
                   client_id |-> rev_calls[p].caller,
                   provider_id |-> None, status |-> "requested"])
    /\ RevRespond(p)
    /\ UNCHANGED <<users, reviews, nonRevVars>>

\* POST /services/reviews, to the end of its get_current_user dependency.
ReviewStart(p, caller_id, sid) ==
    /\ rev_calls[p].pc = "idle"
    /\ UserById(caller_id) # NoUser
    /\ rev_calls' = [rev_calls EXCEPT ![p] =
          [RevIdle EXCEPT !.pc = "rev_find", !.caller = caller_id,
                          !.role = UserById(caller_id).role,
                          !.sid = sid, !.had0 = HasReview(sid, caller_id)]]
    /\ UNCHANGED <<users, service_requests, reviews, nonRevVars>>

\* A lookup of the request that raises nothing.
ReviewFindAny(caller_id, service_request) == None

\* The status create_review raises after the lookup of the request: 404
\* without one, 403 for a caller who is neither its client nor its provider
\* (None: it raises nothing).
ReviewFindCode(caller_id, service_request) ==
    IF service_request = NoRequest THEN 404
    ELSE IF caller_id \notin {service_request.client_id,
                              service_request.provider_id} THEN 403
    ELSE None

\* create_review, the lookup of the request; the reviewee is the other
\* party.
ReviewFind(p) ==
    /\ rev_calls[p].pc = "rev_find"
    /\ LET c == rev_calls[p]
           service_request == FindRequest(c.sid)
       IN  IF ReviewFindCode(c.caller, service_request) # None
           THEN RevRespond(p)
           ELSE rev_calls' = [rev_calls EXCEPT ![p] =
                   [c EXCEPT
                       !.pc = "rev_check",
                       !.provider = service_request.provider_id,
                       !.reviewee =
                           IF c.caller = service_request.client_id
                           THEN service_request.provider_id
                           ELSE service_request.client_id]]
    /\ UNCHANGED <<users, service_requests, reviews, nonRevVars>>

\* Reviews that have passed the lookup of an earlier one and are not stored.
PendingReviews == Cardinality({q \in Procs : rev_calls[q].pc = "rev_insert"})

\* The status create_review raises after the lookup of an earlier review by
\* the caller: 409 with one; without a reviewee Review(...) fails its
\* validation, an unhandled error (None: it raises nothing).
ReviewCheckCode(c) ==
    IF HasReview(c.sid, c.caller) THEN 409
    ELSE IF c.reviewee = None THEN 500
    ELSE None

\* create_review, the lookup of an earlier review by the caller.
ReviewCheck(p) ==
    /\ rev_calls[p].pc = "rev_check"
    /\ IF ReviewCheckCode(rev_calls[p]) # None
       THEN RevRespond(p)
       ELSE /\ BagCardinality(reviews) + PendingReviews < MaxReviews
            /\ rev_calls' = [rev_calls EXCEPT ![p].pc = "rev_insert"]
    /\ UNCHANGED <<users, service_requests, reviews, nonRevVars>>

\* The ratings a request body may carry, valid or not.
RatingBodies == {0, 1, 5, 6}

\* A validation that admits every rating.
AnyRating(rating) == None

\* ReviewCreate's validation of the body's rating, Field(ge=1, le=5): the
\* code of the refusal, None when the body is admitted to the handler.
ReviewCreateCode(rating) ==
    IF rating >= 1 /\ rating <= 5 THEN None ELSE 422

\* create_review's insert_one of the review with the rating of the body,
\* which passed ReviewCreate's validation before the handler ran; the
\* rating is recomputed only when the reviewee is the provider the request
\* had.
ReviewInsert(p, rating) ==
    /\ rev_calls[p].pc = "rev_insert"
    /\ ReviewCreateCode(rating) = None
    /\ LET c == rev_calls[p]
       IN  /\ reviews' = reviews (+) SetToBag(
                 {[service_request_id |-> c.sid, reviewer_id |-> c.caller,
                   reviewee_id |-> c.reviewee, rating |-> rating]})
           /\ IF c.reviewee = c.provider
              THEN rev_calls' = [rev_calls EXCEPT ![p].pc = "rev_aggregate"]
              ELSE RevRespond(p)
    /\ UNCHANGED <<users, service_requests, nonRevVars>>

\* update_provider_rating's aggregate and the rounding of its average.
ReviewAggregate(p) ==
    /\ rev_calls[p].pc = "rev_aggregate"
    /\ LET c == rev_calls[p]
           result == MatchReviewee(reviews, c.reviewee)
       IN  rev_calls' = [rev_calls EXCEPT ![p] =
              [c EXCEPT !.pc = "rev_rate",
                        !.avg = IF result = {} THEN None
                                ELSE RoundTenths(GroupSum(result, reviews),
                                                 GroupCount(result, reviews))]]
    /\ UNCHANGED <<users, service_requests, reviews, nonRevVars>>

\* update_provider_rating's update_one, then create_review's answer.
ReviewRate(p) ==
    /\ rev_calls[p].pc = "rev_rate"
    /\ LET c == rev_calls[p]
       IN  users' = IF c.avg = None THEN users
                    ELSE SetUserRating(c.reviewee, c.avg)
    /\ RevRespond(p)
    /\ UNCHANGED <<service_requests, reviews, nonRevVars>>

\* No create_review is in flight.
NoReviewInProgress ==
    \A q \in Procs : rev_calls[q].pc \in {"idle", "req_insert"}

\* A create_review that begins when no other is in flight.
ReviewStartAlone(p, caller_id, sid) ==
    /\ NoReviewInProgress
    /\ ReviewStart(p, caller_id, sid)

\* The websocket steps that assign a provider to a persisted request: a
\* connected user answers "accept" for a service id.
NextAccept ==
    \E k \in SocketIds, sid \in RequestInputs : AcceptStart(k, sid)

\* The steps of the marketplace handlers after their first.
NextReviewBody ==
    \/ \E p \in Procs : CreateRequestInsert(p)
    \/ \E p \in Procs : ReviewFind(p)
    \/ \E p \in Procs : ReviewCheck(p)
    \/ \E p \in Procs, r \in RatingInputs : ReviewInsert(p, r)
    \/ \E p \in Procs : ReviewAggregate(p)
    \/ \E p \in Procs : ReviewRate(p)

\* Requests, accepts and reviews, the handlers interleaved at will.
NextReview ==
    \/ \E u \in UserIds : CreateRequestStart(2, u)
    \/ \E p \in Procs, u \in UserIds, sid \in RequestInputs :
          ReviewStart(p, u, sid)
    \/ NextReviewBody
    \/ NextAccept

\* The same, with no create_review begun while another is in flight.
NextReviewSeq ==
    \/ \E u \in UserIds : CreateRequestStart(2, u)
    \/ \E u \in UserIds, sid \in RequestInputs : ReviewStartAlone(1, u, sid)
    \/ NextReviewBody
    \/ NextAccept

\* Requests, accepts and reviews whose bodies carry any rating, with no
\* create_review begun while another is in flight.
NextRating ==
    \/ \E u \in UserIds : CreateRequestStart(2, u)
    \/ \E u \in UserIds, sid \in RequestInputs : ReviewStartAlone(1, u, sid)
    \/ \E p \in Procs : CreateRequestInsert(p)
    \/ \E p \in Procs : ReviewFind(p)
    \/ \E p \in Procs : ReviewCheck(p)
    \/ \E p \in Procs, r \in RatingBodies : ReviewInsert(p, r)
    \/ \E p \in Procs : ReviewAggregate(p)
    \/ \E p \in Procs : ReviewRate(p)
    \/ NextAccept

(***************************************************************************)
(* Service actions and offers (service_actions.py, server.py, models.py)   *)
(***************************************************************************)

\* Offers and rejection log entries the stores may hold.
MaxOffers == 2
MaxRejections == 2

\* class ServiceStatus(str, Enum): the members and their values.
ServiceStatus ==
    [REQUESTED |-> "requested", MATCHED |-> "matched",
     ACCEPTED |-> "accepted", IN_PROGRESS |-> "in_progress",
     COMPLETED |-> "completed", CANCELLED |-> "cancelled"]

\* [s.value for s in ServiceStatus].
valid_statuses == {ServiceStatus[m] : m \in DOMAIN ServiceStatus}

\* The statuses a status_data body may carry: valid ones, one that is no
\* member's value, and none.
StatusInputs == {"requested", "completed", "cancelled", "pending", NoneStr}

\* A service-action call: its route position, the id and the role of the
\* user its token resolved to, the request it names, the status of its body
\* and the request document its find_one returned.
SvcIdle ==
    [pc |-> "idle", caller |-> None, role |-> NoneStr, sid |-> None,
     new_status |-> NoneStr, service |-> NoRequest]

\* No list-requests response has been sent.
NoList == [caller |-> None, role |-> NoneStr, requests |-> <<>>]

InitSvc ==
    /\ offers = <<>>
    /\ service_rejections = EmptyBag
    /\ svc_calls = [p \in Procs |-> SvcIdle]
    /\ list_out = NoList

\* The handler p returns or raises: its frame is gone.
SvcRespond(p) == svc_calls' = [svc_calls EXCEPT ![p] = SvcIdle]

\* The frame of a service-action route at the end of its get_current_user
\* dependency, which resolved the token to the user caller_id.
SvcCall(pc, caller_id, sid, new_status) ==
    [SvcIdle EXCEPT !.pc = pc, !.caller = caller_id,
                    !.role = UserById(caller_id).role,
                    !.sid = sid, !.new_status = new_status]

\* The frame after the awaited find_one of the request it names.
SvcFound(c, pc) ==
    [c EXCEPT !.pc = pc, !.service = FindRequest(c.sid)]

\* POST /services/{service_id}/accept, to the end of its dependency.
AcceptRequestStart(p, caller_id, sid) ==
    /\ svc_calls[p].pc = "idle"
    /\ UserById(caller_id) # NoUser
    /\ svc_calls' = [svc_calls EXCEPT ![p] =
          SvcCall("acc_find", caller_id, sid, NoneStr)]
    /\ UNCHANGED <<service_requests, offers, service_rejections, nonSvcVars>>

\* accept_service_request: the role check, then the awaited find_one.
AcceptRequestFind(p) ==
    /\ svc_calls[p].pc = "acc_find"
    /\ IF svc_calls[p].role # "provider"
       THEN SvcRespond(p)
       ELSE svc_calls' = [svc_calls EXCEPT ![p] =
               SvcFound(svc_calls[p], "acc_update")]
    /\ UNCHANGED <<service_requests, offers, service_rejections, nonSvcVars>>

\* The status accept_service_request raises: 403 for a caller who is not a
\* provider, 404 without the request; then it compares the status with
\* ServiceStatus.PENDING, and the enumeration has no such member: the
\* AttributeError is an unhandled error (None: it raises nothing).
AcceptRequestCode(role, service) ==
    IF role # "provider" THEN 403
    ELSE IF service = NoRequest THEN 404
    ELSE IF "PENDING" \notin DOMAIN ServiceStatus THEN 500
    ELSE IF service.status # ServiceStatus["PENDING"] THEN 400
    ELSE None

\* accept_service_request after the lookup: the checks of the document, and
\* the update_one that assigns the provider.
AcceptRequestUpdate(p) ==
    /\ svc_calls[p].pc = "acc_update"
    /\ LET c == svc_calls[p]
       IN  service_requests' =
              IF AcceptRequestCode(c.role, c.service) # None
              THEN service_requests
              ELSE SetAccepted(c.sid, c.caller)
    /\ SvcRespond(p)
    /\ UNCHANGED <<offers, service_rejections, nonSvcVars>>

\* Rejections that have passed the role check and are not logged.
PendingRejections ==
    Cardinality({q \in Procs : svc_calls[q].pc = "rej_insert"})

\* POST /services/{service_id}/reject.
RejectRequestStart(p, caller_id, sid) ==
    /\ svc_calls[p].pc = "idle"
    /\ UserById(caller_id) # NoUser
    /\ svc_calls' = [svc_calls EXCEPT ![p] =
          SvcCall("rej_find", caller_id, sid, NoneStr)]
    /\ UNCHANGED <<service_requests, offers, service_rejections, nonSvcVars>>

\* reject_service_request: the role check, then the awaited find_one.
RejectRequestFind(p) ==
    /\ svc_calls[p].pc = "rej_find"
    /\ IF svc_calls[p].role # "provider"
       THEN SvcRespond(p)
       ELSE /\ BagCardinality(service_rejections) + PendingRejections
                 < MaxRejections
            /\ svc_calls' = [svc_calls EXCEPT ![p] =
                  SvcFound(svc_calls[p], "rej_insert")]
    /\ UNCHANGED <<service_requests, offers, service_rejections, nonSvcVars>>

\* The status reject_service_request raises (None: it raises nothing).
RejectRequestCode(role, service) ==
    IF role # "provider" THEN 403
    ELSE IF service = NoRequest THEN 404
    ELSE None

\* No rejection is logged.
KeepRejections(log, service_id, provider_id) == log

\* service_rejections.insert_one(rejection_data).
LogRejection(log, service_id, provider_id) ==
    log (+) SetToBag({[service_id |-> service_id,
                       provider_id |-> provider_id,
                       reason |-> "provider_declined"]})

\* reject_service_request after the lookup: the rejection is logged and the
\* request is not written.
RejectRequestInsert(p) ==
    /\ svc_calls[p].pc = "rej_insert"
    /\ LET c == svc_calls[p]
       IN  service_rejections' =
              IF RejectRequestCode(c.role, c.service) # None
              THEN service_rejections
              ELSE LogRejection(service_rejections, c.sid, c.caller)
    /\ SvcRespond(p)
    /\ UNCHANGED <<service_requests, offers, nonSvcVars>>

\* PUT /services/{service_id}/status.
UpdateStatusStart(p, caller_id, sid, new_status) ==
    /\ svc_calls[p].pc = "idle"
    /\ UserById(caller_id) # NoUser
    /\ svc_calls' = [svc_calls EXCEPT ![p] =
          SvcCall("upd_find", caller_id, sid, new_status)]
    /\ UNCHANGED <<service_requests, offers, service_rejections, nonSvcVars>>

\* The status update_service_status raises for the body: 400 without a
\* status or with one that is no member's value (None: it raises nothing).
StatusBodyCode(new_status) ==
    IF new_status = NoneStr THEN 400
    ELSE IF new_status \notin valid_statuses THEN 400
    ELSE None

\* update_service_status: the checks of the body, then the awaited find_one.
UpdateStatusFind(p) ==
    /\ svc_calls[p].pc = "upd_find"
    /\ IF StatusBodyCode(svc_calls[p].new_status) # None
       THEN SvcRespond(p)
       ELSE svc_calls' = [svc_calls EXCEPT ![p] =
               SvcFound(svc_calls[p], "upd_write")]
    /\ UNCHANGED <<service_requests, offers, service_rejections, nonSvcVars>>

\* The status update_service_status raises after the lookup: 404 without
\* the request, 403 for a provider who is not the request's provider and for
\* a client who is not the request's client (None: it raises nothing).
UpdateStatusCode(c) ==
    IF c.service = NoRequest THEN 404
    ELSE IF c.role = "provider" /\ c.service.provider_id # c.caller THEN 403
    ELSE IF c.role = "client" /\ c.service.client_id # c.caller THEN 403
    ELSE None

\* update_one({"id": service_id}, {"$set": {"status": new_status}}).
SetStatus(service_id, new_status) ==
    [i \in 1..Len(service_requests) |->
        IF service_requests[i].id = service_id
           /\ \A j \in 1..(i - 1) : service_requests[j].id # service_id
        THEN [service_requests[i] EXCEPT !.status = new_status]
        ELSE service_requests[i]]

\* update_service_status after the lookup: the permission check on the
\* document it read, and the update_one.
UpdateStatusWrite(p) ==
    /\ svc_calls[p].pc = "upd_write"
    /\ LET c == svc_calls[p]
       IN  service_requests' =
              IF UpdateStatusCode(c) # None THEN service_requests
              ELSE SetStatus(c.sid, c.new_status)
    /\ SvcRespond(p)
    /\ UNCHANGED <<offers, service_rejections, nonSvcVars>>

\* Offers that have been authenticated and are not stored.
PendingOffers == Cardinality({q \in Procs : svc_calls[q].pc = "offer_insert"})

\* POST /services/offers, to the end of its get_current_user dependency;
\* sid is the service_request_id of the body.
CreateOfferStart(p, caller_id, sid) ==
    /\ svc_calls[p].pc = "idle"
    /\ UserById(caller_id) # NoUser
    /\ Len(offers) + PendingOffers < MaxOffers
    /\ svc_calls' = [svc_calls EXCEPT ![p] =
          SvcCall("offer_insert", caller_id, sid, NoneStr)]
    /\ UNCHANGED <<service_requests, offers, service_rejections, nonSvcVars>>

\* A route that raises nothing for any role.
AnyRoleCreates(role) == None

\* The status create_offer raises for a caller of this role (None: it
\* raises nothing).
CreateOfferCode(role) == IF role # "provider" THEN 403 ELSE None

\* An offer that is born accepted.
OfferAccepted(id, service_request_id, provider_id) ==
    [id |-> id, service_request_id |-> service_request_id,
     provider_id |-> provider_id, status |-> "accepted"]

\* Offer(**offer_create.dict(), provider_id=current_user.id).
Offer(id, service_request_id, provider_id) ==
    [id |-> id, service_request_id |-> service_request_id,
     provider_id |-> provider_id, status |-> "pending"]

\* create_offer: only a provider may create; the offer is stored with the
\* service_request_id of the body as it came.
CreateOfferInsert(p) ==
    /\ svc_calls[p].pc = "offer_insert"
    /\ LET c == svc_calls[p]
       IN  offers' =
              IF CreateOfferCode(c.role) # None THEN offers
              ELSE Append(offers, Offer(Len(offers) + 1, c.sid, c.caller))
    /\ SvcRespond(p)
    /\ UNCHANGED <<service_requests, service_rejections, nonSvcVars>>

\* Stores of requests as create_service_request leaves them, of any clients.
SeedRequests ==
    {[i \in 1..MaxRequests |->
         [id |-> i, client_id |-> c[i], provider_id |-> None,
          status |-> "requested"]] : c \in [1..MaxRequests -> UserIds]}

\* GET /users/role-switch, to the end of its get_current_user dependency,
\* with the token that register or login gave the user id.
SwitchRoleStart(p, id) ==
    /\ UserById(id) # NoUser
    /\ Protected(p, "switch_role",
                 create_access_token(UserById(id).email,
                                     ACCESS_TOKEN_EXPIRE_MINUTES),
                 id, NoUpdate)

\* Role switches of users 1 and 2, one call at a time.
NextSwitchRole ==
    \/ \E id \in {1, 2} : SwitchRoleStart(2, id)
    \/ SwitchRoleWrite(2)

\* Requests that clients create and connected users accept or reject over
\* their websockets.
NextRequests ==
    \/ \E u \in UserIds : CreateRequestStart(2, u)
    \/ CreateRequestInsert(2)
    \/ NextAccept
    \/ \E k \in SocketIds, sid \in RequestInputs : Reject(k, sid)

\* The HTTP accept, by any user for any request id.
NextAcceptRequest ==
    \/ \E p \in Procs, u \in UserIds, sid \in RequestInputs :
          AcceptRequestStart(p, u, sid)
    \/ \E p \in Procs : AcceptRequestFind(p)
    \/ \E p \in Procs : AcceptRequestUpdate(p)

\* The HTTP reject, by any user for any request id.
NextRejectRequest ==
    \/ \E p \in Procs, u \in UserIds, sid \in RequestInputs :
          RejectRequestStart(p, u, sid)
    \/ \E p \in Procs : RejectRequestFind(p)
    \/ \E p \in Procs : RejectRequestInsert(p)

\* The HTTP status update, by any user for any request id with any body,
\* one call at a time.
NextUpdateStatus ==
    \/ \E u \in UserIds, sid \in RequestInputs, st \in StatusInputs :
          UpdateStatusStart(1, u, sid, st)
    \/ UpdateStatusFind(1)
    \/ UpdateStatusWrite(1)

\* Accepts of the requests clients create, over HTTP and the websockets.
NextAccepting == NextRequests \/ NextAcceptRequest

\* Status updates of stored requests that connected users accept.
NextStatus ==
    \/ NextAccept
    \/ \E k \in SocketIds, sid \in RequestInputs : Reject(k, sid)
    \/ NextUpdateStatus

\* Rejections of the requests clients create, over HTTP and the websockets.
NextRejecting == NextRequests \/ NextRejectRequest

\* The length of the lists get_service_requests asks the cursor for.
ListLimit == 100

\* The largest store of requests a listing is made of, and the sizes of the
\* stores it is made of.
MaxStored == 101
ListSizes == {0, MaxRequests, ListLimit, MaxStored}

\* cursor.to_list(length): the first length documents, in stored order.
to_list(docs, length) ==
    IF Len(docs) <= length THEN docs ELSE SubSeq(docs, 1, length)

\* A listing without a filter and without a length.
get_all_requests(role, caller_id) == service_requests

\* get_service_requests: for a client the requests of the caller, for any
\* other role the requests that are requested or matched; at most ListLimit
\* of them.
get_service_requests(role, caller_id) ==
    IF role = "client"
    THEN to_list(SelectSeq(service_requests,
                           LAMBDA r : r.client_id = caller_id), ListLimit)
    ELSE to_list(SelectSeq(service_requests,
                           LAMBDA r : r.status \in {ServiceStatus.REQUESTED,
                                                    ServiceStatus.MATCHED}),
                 ListLimit)

\* GET /services/requests, to the end of its get_current_user dependency.
ListRequestsStart(p, caller_id) ==
    /\ svc_calls[p].pc = "idle"
    /\ UserById(caller_id) # NoUser
    /\ svc_calls' = [svc_calls EXCEPT ![p] =
          SvcCall("list_find", caller_id, None, NoneStr)]
    /\ UNCHANGED <<service_requests, offers, service_rejections, nonSvcVars>>

\* get_service_requests' awaited find(...).to_list, and its answer.
ListRequestsFind(p) ==
    /\ svc_calls[p].pc = "list_find"
    /\ LET c == svc_calls[p]
       IN  list_out' = [caller |-> c.caller, role |-> c.role,
                        requests |-> get_service_requests(c.role, c.caller)]
    /\ SvcRespond(p)
    /\ UNCHANGED <<payVars, authVars, rtVars, revVars, offers,
                   service_rejections, pushVars>>

\* The statuses of the requests of a seeded store: all requested, or the
\* members of ServiceStatus in turn.
StatusPatterns ==
    {[i \in 1..MaxStored |-> "requested"],
     [i \in 1..MaxStored |->
        CASE i % 6 = 1 -> ServiceStatus.REQUESTED
          [] i % 6 = 2 -> ServiceStatus.MATCHED
          [] i % 6 = 3 -> ServiceStatus.ACCEPTED
          [] i % 6 = 4 -> ServiceStatus.IN_PROGRESS
          [] i % 6 = 5 -> ServiceStatus.COMPLETED
          [] OTHER -> ServiceStatus.CANCELLED]}

\* Stores of requests of the three users in turn, with these statuses; a
\* request past requested and matched has the next user as its provider.
ListedRequests ==
    {[i \in 1..n |->
         [id |-> i, client_id |-> (i % 3) + 1,
          provider_id |-> IF st[i] \in {"requested", "matched"} THEN None
                          ELSE ((i + 1) % 3) + 1,
          status |-> st[i]]] : n \in ListSizes, st \in StatusPatterns}

\* Listings by any user, while connected users accept.
NextListing ==
    \/ \E p \in Procs, u \in UserIds : ListRequestsStart(p, u)
    \/ \E p \in Procs : ListRequestsFind(p)
    \/ NextAccept

\* The creation of requests and offers, by any user for any request id, while
\* users 1 and 2 switch roles.
NextCreating ==
    \/ \E u \in UserIds : CreateRequestStart(2, u)
    \/ CreateRequestInsert(2)
    \/ \E p \in Procs, u \in UserIds, sid \in RequestInputs :
          CreateOfferStart(p, u, sid)
    \/ \E p \in Procs : CreateOfferInsert(p)
    \/ NextSwitchRole

(***************************************************************************)
(* Push notifications (notification_service.py)                            *)
(***************************************************************************)

\* The device tokens a caller may save.
PushTokenInputs == {"t1", "t2"}

\* What the gateway answers to a post: a status code with a body that
\* parses as JSON or not, or no answer at all (the transport raises).
PostOutcomes ==
    {[raised |-> FALSE, status_code |-> 200, json |-> TRUE],
     [raised |-> FALSE, status_code |-> 200, json |-> FALSE],
     [raised |-> FALSE, status_code |-> 400, json |-> TRUE],
     [raised |-> FALSE, status_code |-> 500, json |-> FALSE],
     [raised |-> TRUE, status_code |-> None, json |-> FALSE]}

\* No notification call has returned yet.
NoPushOut ==
    [op |-> "none", user_id |-> None, push_token |-> NoneStr,
     push_tokens |-> <<>>, status_code |-> None, raised |-> FALSE,
     value |-> FALSE]

InitPush ==
    /\ push_tokens = <<>>
    /\ push_out = NoPushOut

\* The documents of the store that match {"user_id": user_id}.
TokensOf(store, user_id) ==
    {i \in 1..Len(store) : store[i].user_id = user_id}

\* insert_one of a new document, whatever the store holds.
insert_token(store, user_id, push_token) ==
    Append(store, [user_id |-> user_id, push_token |-> push_token])

\* update_one({"user_id": user_id}, {"$set": {"push_token": push_token}},
\* upsert=True): the first matching document is updated, and a document
\* is inserted when none matches.
upsert_token(store, user_id, push_token) ==
    LET hits == TokensOf(store, user_id)
    IN  IF hits = {}
        THEN Append(store, [user_id |-> user_id, push_token |-> push_token])
        ELSE [store EXCEPT ![CHOOSE i \in hits : \A j \in hits : i <= j]
                               .push_token = push_token]

\* save_push_token(user_id, push_token): the upsert, True when it returns
\* and False when it raises (ok tells which), the store then as it was.
save_push_token(user_id, push_token, ok) ==
    /\ push_tokens' = IF ok THEN upsert_token(push_tokens, user_id, push_token)
                      ELSE push_tokens
    /\ push_out' = [NoPushOut EXCEPT !.op = "save", !.user_id = user_id,
                                     !.push_token = push_token,
                                     !.value = ok]
    /\ UNCHANGED nonPushVars

\* get_user_push_tokens(user_ids), as the list of its values: the tokens
\* of the stored documents of these users, a user's later document
\* replacing its earlier one.
get_user_push_tokens(user_ids) ==
    LET kept == {i \in 1..Len(push_tokens) :
                    /\ push_tokens[i].user_id \in user_ids
                    /\ push_tokens[i].push_token # ""}
        first == {i \in kept :
                    \A j \in kept :
                        push_tokens[j].user_id = push_tokens[i].user_id
                            => i <= j}
        last(i) == CHOOSE j \in kept :
                      /\ push_tokens[j].user_id = push_tokens[i].user_id
                      /\ \A k \in kept :
                            push_tokens[k].user_id = push_tokens[i].user_id
                                => k <= j
        keys == SelectSeq([i \in 1..Len(push_tokens) |-> i],
                          LAMBDA i : i \in first)
    IN  [n \in 1..Len(keys) |-> push_tokens[last(keys[n])].push_token]

\* A post whose exception reaches the caller.
post_unguarded(tokens, outcome) ==
    IF tokens = <<>> THEN [raised |-> FALSE, value |-> FALSE]
    ELSE IF outcome.raised THEN [raised |-> TRUE, value |-> FALSE]
    ELSE IF outcome.status_code = 200
         THEN [raised |-> ~outcome.json, value |-> outcome.json]
    ELSE [raised |-> FALSE, value |-> FALSE]

\* What send_push_notification returns for a token list and a gateway
\* outcome: False without a post for no tokens; True for a 200 whose body
\* parses; False for another status and, through its except clause, for
\* whatever the post or the parsing raises.
push_result(tokens, outcome) ==
    IF tokens = <<>> THEN [raised |-> FALSE, value |-> FALSE]
    ELSE IF outcome.raised THEN [raised |-> FALSE, value |-> FALSE]
    ELSE IF outcome.status_code = 200
         THEN [raised |-> FALSE, value |-> outcome.json]
    ELSE [raised |-> FALSE, value |-> FALSE]

\* send_push_notification(push_tokens, ...) to the tokens of the users
\* user_ids, the gateway answering with outcome.
send_push_notification(user_ids, outcome) ==
    /\ LET tokens == get_user_push_tokens(user_ids)
           r == push_result(tokens, outcome)
       IN  push_out' = [NoPushOut EXCEPT !.op = "send",
                                        !.push_tokens = tokens,
                                        !.status_code = outcome.status_code,
                                        !.raised = r.raised,
                                        !.value = r.value]
    /\ UNCHANGED <<push_tokens, nonPushVars>>

\* Saves and sends, in any order.
NextPush ==
    \/ \E u \in UserIds, t \in PushTokenInputs, ok \in BOOLEAN :
          save_push_token(u, t, ok)
    \/ \E ids \in SUBSET UserIds, outcome \in PostOutcomes :
          send_push_notification(ids, outcome)

(***************************************************************************)
(* Specifications                                                          *)
(***************************************************************************)

\* The state after construction: empty stores, no handler in flight.
Init == InitPay /\ InitAuth /\ InitRt /\ InitRev /\ InitSvc /\ InitPush

\* A state the program reaches by three registrations and the websocket
\* connections of the three users.
InitSeeded ==
    /\ InitPay
    /\ users = SeedUsers
    /\ now = 0
    /\ auth_calls = [p \in Procs |-> AuthIdle]
    /\ auth_out = AuthNoOut
    /\ active_connections = SeedConnections
    /\ user_locations = [u \in UserIds |-> None]
    /\ active_services = [s \in ServiceIds |-> NoService]
    /\ ws_calls = SeedSockets
    /\ rt_calls = [p \in Procs |-> RtIdle]
    /\ InitRev
    /\ InitSvc
    /\ InitPush

Next ==
    \/ NextPay \/ NextAuth \/ NextGate \/ NextToken \/ NextRt \/ NextReview
    \/ NextAccepting \/ NextStatus \/ NextRejecting \/ NextListing
    \/ NextCreating \/ NextRating \/ NextPush
    \/ NextBroadcast \/ NextPersonal \/ NextUpdating

Spec == Init /\ [][Next]_vars

SpecPay == Init /\ [][NextPay]_vars

SpecAuth == Init /\ [][NextAuth]_vars

SpecGate == Init /\ [][NextGate]_vars

SpecToken == Init /\ [][NextToken]_vars

SpecRt == Init /\ [][NextRt]_vars

\* The same state, with users 1 and 2 connected and every service id
\* registered with the broadcaster.
InitConnected ==
    InitPay /\ InitAuth /\ InitLocation /\ InitRev /\ InitSvc /\ InitPush

SpecLocation == InitConnected /\ [][NextLocation]_vars

\* The same state, with users 1 and 2 connected.
InitCalls ==
    InitPay /\ InitAuth /\ InitBroadcast /\ InitRev /\ InitSvc /\ InitPush

SpecBroadcast == InitCalls /\ [][NextBroadcast]_vars

\* The same state, with users 1 and 2 connected and an accepted request.
InitMessages ==
    InitPay /\ InitAuth /\ InitPersonal /\ InitRev /\ InitSvc /\ InitPush

SpecPersonal == InitMessages /\ [][NextPersonal]_vars

SpecUpdating == InitMessages /\ [][NextUpdating]_vars

SpecReview == InitSeeded /\ [][NextReview]_vars

SpecReviewSeq == InitSeeded /\ [][NextReviewSeq]_vars

SpecRating == InitSeeded /\ [][NextRating]_vars

SpecPush == Init /\ [][NextPush]_vars

SpecAccepting == InitSeeded /\ [][NextAccepting]_vars

\* A state the program reaches when the users, each a client at the time,
\* have created requests (and have switched roles since).
InitRequested ==
    /\ InitPay
    /\ users = SeedUsers
    /\ now = 0
    /\ auth_calls = [p \in Procs |-> AuthIdle]
    /\ auth_out = AuthNoOut
    /\ active_connections = SeedConnections
    /\ user_locations = [u \in UserIds |-> None]
    /\ active_services = [s \in ServiceIds |-> NoService]
    /\ ws_calls = SeedSockets
    /\ rt_calls = [p \in Procs |-> RtIdle]
    /\ service_requests \in SeedRequests
    /\ reviews = EmptyBag
    /\ rev_calls = [p \in Procs |-> RevIdle]
    /\ InitSvc
    /\ InitPush

SpecStatus == InitRequested /\ [][NextStatus]_vars

\* A state the program reaches when many requests have been created and
\* some of them have moved on.
InitListed ==
    /\ InitPay
    /\ users = SeedUsers
    /\ now = 0
    /\ auth_calls = [p \in Procs |-> AuthIdle]
    /\ auth_out = AuthNoOut
    /\ active_connections = SeedConnections
    /\ user_locations = [u \in UserIds |-> None]
    /\ active_services = [s \in ServiceIds |-> NoService]
    /\ ws_calls = SeedSockets
    /\ rt_calls = [p \in Procs |-> RtIdle]
    /\ service_requests \in ListedRequests
    /\ reviews = EmptyBag
    /\ rev_calls = [p \in Procs |-> RevIdle]
    /\ InitSvc
    /\ InitPush

SpecListing == InitListed /\ [][NextListing]_vars

SpecRejecting == InitSeeded /\ [][NextRejecting]_vars

SpecCreating == InitSeeded /\ [][NextCreating]_vars

(***************************************************************************)
(* C1: once a transaction's payment_status is "paid", no later step of any *)
(* update_payment_transaction changes its status or its payment_status.    *)
(***************************************************************************)
C1_PaidIsFinal ==
    [][\A i \in 1..Len(payment_transactions) :
          payment_transactions[i].payment_status = "paid"
          => /\ payment_transactions'[i].payment_status = "paid"
             /\ payment_transactions'[i].status = payment_transactions[i].status]_vars

(***************************************************************************)
(* C2: a login begun when a user with this email and this password has     *)
(* been registered answers 200 with a token whose subject is the email and *)
(* with a user record of that email.                                       *)
(***************************************************************************)
C2_LoginAfterRegister ==
    (auth_out.op = "login" /\ auth_out.reg0)
    => /\ auth_out.code = 200
       /\ auth_out.token.sub = auth_out.email
       /\ auth_out.token.sig = SECRET_KEY
       /\ auth_out.user.email = auth_out.email

(***************************************************************************)
(* C3: a register issued when a user with its email is already stored      *)
(* never goes on to the insert; it answers 400 "Email already registered"  *)
(* at once, with no token and no user, and leaves the user store as it     *)
(* was.                                                                    *)
(***************************************************************************)
EmailStored(email) == \E i \in 1..Len(users) : users[i].email = email

C3_DuplicateRegisterRejected ==
    [][/\ \A p \in Procs :
             (auth_calls[p].pc = "idle" /\ auth_calls'[p].pc = "reg_insert")
             => ~EmailStored(auth_calls'[p].email)
       /\ (/\ auth_calls' = auth_calls
           /\ auth_out' # auth_out
           /\ auth_out'.op = "register"
           /\ EmailStored(auth_out'.email))
          => /\ auth_out'.code = 400
             /\ auth_out'.detail = "Email already registered"
             /\ auth_out'.token = NoToken
             /\ auth_out'.user = NoUser
             /\ users' = users]_vars

\* A register has been refused for an email that a stored user holds.
C3_Witness ==
    /\ auth_out.op = "register"
    /\ auth_out.code = 400
    /\ EmailStored(auth_out.email)

(***************************************************************************)
(* C4: no two stored users have the same email.                            *)
(***************************************************************************)
C4_UniqueEmail ==
    \A i, j \in 1..Len(users) : users[i].email = users[j].email => i = j

(***************************************************************************)
(* C5: a protected request whose token has a wrong signature, a passed     *)
(* expiry or no subject never reaches the body of its route; it answers    *)
(* 401 with no user and no token, and no store changes.                    *)
(***************************************************************************)
BadToken(tok) ==
    \/ tok.sig # SECRET_KEY
    \/ tok.exp < now
    \/ tok.sub = NoneStr

C5_BadTokenRejected ==
    [][/\ \A p \in Procs :
             (/\ auth_calls[p].pc = "idle"
              /\ auth_calls'[p].pc # "idle"
              /\ auth_calls'[p].op \in ProtectedOps)
             => ~BadToken(auth_calls'[p].tok)
       /\ (/\ auth_calls' = auth_calls
           /\ auth_out' # auth_out
           /\ auth_out'.op \in ProtectedOps
           /\ BadToken(auth_out'.tok))
          => /\ auth_out'.code = 401
             /\ auth_out'.user = NoUser
             /\ auth_out'.token = NoToken
             /\ users' = users
             /\ payment_transactions' = payment_transactions]_vars

\* A correctly signed token of a registered user has been refused after its
\* expiry.
C5_Witness ==
    /\ auth_out.op \in ProtectedOps
    /\ auth_out.code = 401
    /\ auth_out.tok.sig = SECRET_KEY
    /\ auth_out.tok.exp < now
    /\ EmailStored(auth_out.tok.sub)

(***************************************************************************)
(* C6: a token issued to a user authenticates that user: the body of a     *)
(* protected route runs as the user the token was issued to, GET /users/me *)
(* returns that user, and an issued token is refused only once expired.    *)
(***************************************************************************)
C6_TokenAuthenticatesOwner ==
    /\ \A p \in Procs :
          (auth_calls[p].pc \in {"update_profile", "profile_read", "switch_role"}
           /\ auth_calls[p].iss # None)
          => auth_calls[p].cur.id = auth_calls[p].iss
    /\ (auth_out.op = "get_me" /\ auth_out.iss # None /\ auth_out.code = 200)
       => auth_out.user.id = auth_out.iss
    /\ (auth_out.op \in ProtectedOps /\ auth_out.iss # None
        /\ auth_out.code = 401)
       => auth_out.tok.exp < now

(***************************************************************************)
(* C7: a create_review by a reviewer whose review of the request was       *)
(* stored when the call began is answered with the 409 of the lookup of    *)
(* the earlier review, and the step that answers it stores no review and   *)
(* changes no rating.                                                      *)
(***************************************************************************)
C7_SecondReviewConflicts ==
    [][\A p \in Procs :
          (/\ rev_calls[p].had0
           /\ rev_calls[p].pc # "idle"
           /\ rev_calls'[p].pc = "idle")
          => /\ rev_calls[p].pc = "rev_check"
             /\ ReviewCheckCode(rev_calls[p]) = 409
             /\ reviews' = reviews
             /\ users' = users]_vars

\* The stored reviews of the request sid written by reviewer.
ReviewsBy(sid, reviewer) ==
    {r \in BagToSet(reviews) :
        r.service_request_id = sid /\ r.reviewer_id = reviewer}

(***************************************************************************)
(* C8: in every reachable state, whatever the interleaving of the          *)
(* create_review calls, the review store holds at most one review for each *)
(* pair of a service request and a reviewer.                               *)
(***************************************************************************)
C8_OneReviewPerPair ==
    \A sid \in RequestInputs, u \in UserIds :
        GroupCount(ReviewsBy(sid, u), reviews) <= 1

\* rating, in tenths, is total / count rounded to one decimal place: no
\* other tenth is nearer to the mean.
IsRoundedMean(rating, total, count) ==
    LET d == rating * count - 10 * total
    IN  /\ 2 * d <= count
        /\ 2 * (0 - d) <= count

\* The stored rating of the user id.
RatingOf(id) == UserById(id).rating

\* The user id has the rating the stored reviews addressed to them average
\* to.
RatedByMean(id) ==
    LET result == MatchReviewee(reviews, id)
    IN  /\ RatingOf(id) # None
        /\ IsRoundedMean(RatingOf(id), GroupSum(result, reviews),
                         GroupCount(result, reviews))

(***************************************************************************)
(* C9, as the specification states it: whenever no create_review is in     *)
(* progress, every user who is the reviewee of at least one stored review, *)
(* as a provider or as a client, has as rating the mean of the ratings of  *)
(* those reviews rounded to one decimal place, under every interleaving of *)
(* the create_review calls.                                                *)
(***************************************************************************)
C9_EveryRevieweeRatedByMean ==
    NoReviewInProgress
    => \A u \in UserIds : MatchReviewee(reviews, u) # {} => RatedByMean(u)

\* The review r was written by the client of the request it reviews, so
\* that its reviewee was reviewed as the provider of the request.
ByClient(r) == r.reviewer_id = FindRequest(r.service_request_id).client_id

(***************************************************************************)
(* C9, amended: when no create_review begins while another is in progress, *)
(* then whenever none is in progress every user reviewed as a provider     *)
(* (each review addressed to them was written by the client of the         *)
(* reviewed request) has as rating the mean of the ratings of the reviews  *)
(* addressed to them rounded to one decimal place, and a user reviewed     *)
(* only by providers, as a client, has no rating.                          *)
(***************************************************************************)
C9_ProviderRatedByMean ==
    NoReviewInProgress
    => \A u \in UserIds :
          LET result == MatchReviewee(reviews, u)
          IN  /\ (result # {} /\ \A r \in result : ByClient(r))
                 => RatedByMean(u)
              /\ (result # {} /\ \A r \in result : ~ByClient(r))
                 => RatingOf(u) = None

\* A provider holds the rating 1.5 of two stored reviews rated 1 and 2, and
\* no create_review is in progress.
C9_Witness ==
    /\ NoReviewInProgress
    /\ \E u \in UserIds :
          LET result == MatchReviewee(reviews, u)
          IN  /\ GroupCount(result, reviews) = 2
              /\ GroupSum(result, reviews) = 3
              /\ \A r \in result : ByClient(r)
              /\ RatingOf(u) = 15

\* The users V other than U such that a service of the active-service map
\* has U and V as its client and its provider, in either order.
OtherParties(U) ==
    {V \in UserIds \ {U} :
        \E s \in ServiceIds :
            /\ active_services[s].in_map
            /\ \/ /\ active_services[s].client_id = U
                  /\ active_services[s].provider_id = V
               \/ /\ active_services[s].client_id = V
                  /\ active_services[s].provider_id = U}

\* The user holds an entry of the connection map.
Connected(user_id) == active_connections[user_id] # None

\* A step of the fan-out of a location update on the websocket k.  It
\* starts from the other parties of the sender's active services and goes
\* on from those it has not reached; up to its next suspension it passes
\* only users who are not connected, and it sends to one connected user,
\* who receives the message unless the send fails.  It ends only when no
\* user it has not reached is connected.
FanOutStep(k) ==
    LET c == ws_calls[k]
        d == ws_calls'[k]
        from == IF c.pc = "recv" THEN OtherParties(c.user) ELSE c.todo
        before == IF c.pc = "recv" THEN {} ELSE c.sent
    IN  /\ (c.pc \in {"recv", "loc_send"} /\ d.pc = "loc_send" /\ d # c)
           => \E t \in from :
                 /\ Connected(t)
                 /\ d.sent = IF Delivers(t) THEN before \cup {t} ELSE before
                 /\ d.todo \subseteq from \ {t}
                 /\ \A v \in from \ (d.todo \cup {t}) : ~Connected(v)
        /\ (c.pc = "loc_send" /\ d.pc = "recv")
           => \A v \in c.todo : ~Connected(v)

(***************************************************************************)
(* C10: the location update of a user U goes to the other parties of the   *)
(* services of the active-service map that U is the client or the provider *)
(* of, as the map stands when the update is handled: each of them is sent  *)
(* the message when its turn comes if it is then in the connection map,    *)
(* nobody else is sent it, and U is never sent its own update.             *)
(***************************************************************************)
C10_LocationToOtherParties ==
    /\ [](\A U \in UserIds : LocationTargets(U) = OtherParties(U))
    /\ [](\A k \in SocketIds :
             ws_calls[k].pc = "loc_send"
             => ws_calls[k].user \notin ws_calls[k].sent \cup ws_calls[k].todo)
    /\ [][\A k \in SocketIds : FanOutStep(k)]_vars

\* A location update has been delivered to two other parties.
C10_Witness ==
    \E k \in SocketIds :
        /\ ws_calls[k].pc = "loc_send"
        /\ Cardinality(ws_calls[k].sent) = 2

(***************************************************************************)
(* C11: an accept by a provider of a request whose status is requested     *)
(* succeeds and leaves the persisted request accepted with the accepting   *)
(* provider as its provider_id: the HTTP accept that read a requested      *)
(* request answers with no error and has written it so, and a websocket    *)
(* accept writes the status accepted and the id of a connected user.       *)
(***************************************************************************)
C11_AcceptAssignsProvider ==
    [][/\ \A p \in Procs :
             (/\ svc_calls[p].pc = "acc_update"
              /\ svc_calls[p].role = "provider"
              /\ svc_calls[p].service.status = "requested"
              /\ FindRequest(svc_calls[p].sid).status = "requested"
              /\ svc_calls'[p].pc = "idle")
             => /\ AcceptRequestCode(svc_calls[p].role,
                                     svc_calls[p].service) = None
                /\ FindRequest(svc_calls[p].sid)'.status = "accepted"
                /\ FindRequest(svc_calls[p].sid)'.provider_id
                      = svc_calls[p].caller
       /\ (/\ svc_calls' = svc_calls
           /\ rev_calls' = rev_calls
           /\ service_requests' # service_requests)
          => \A i \in 1..Len(service_requests) :
                service_requests'[i] # service_requests[i]
                => /\ service_requests'[i].status = "accepted"
                   /\ \E k \in SocketIds :
                         /\ ws_calls[k].pc = "recv"
                         /\ service_requests'[i].provider_id
                               = ws_calls[k].user]_vars

(***************************************************************************)
(* C12: completed and cancelled are terminal: no step of a status update,  *)
(* of an HTTP accept or of a websocket accept changes the status of a      *)
(* persisted request whose status is completed or cancelled.               *)
(***************************************************************************)
C12_TerminalStatusIsFinal ==
    [][\A i \in 1..Len(service_requests) :
          service_requests[i].status \in {"completed", "cancelled"}
          => service_requests'[i].status = service_requests[i].status]_vars

(***************************************************************************)
(* C13: the step that ends an HTTP status update changes the persisted     *)
(* request only when the caller is the client or the provider of that      *)
(* request, and for a caller who is neither it answers 403 and changes no  *)
(* request.                                                                *)
(***************************************************************************)
C13_OnlyPartiesUpdateStatus ==
    [][\A p \in Procs :
          (svc_calls[p].pc = "upd_write" /\ svc_calls'[p].pc = "idle")
          => LET c == svc_calls[p]
                 r == FindRequest(c.sid)
                 party == c.caller \in {r.client_id, r.provider_id}
             IN  /\ service_requests' # service_requests => party
                 /\ (r # NoRequest /\ ~party)
                    => /\ UpdateStatusCode(c) = 403
                       /\ service_requests' = service_requests]_vars

(***************************************************************************)
(* C14: a reject leaves every persisted request as it was.  The websocket  *)
(* reject changes nothing at all.  The step that ends an HTTP reject       *)
(* changes no request and no offer, and, when the caller is a provider and *)
(* the request was found, adds to the rejection log exactly one entry,     *)
(* naming the request and the caller; otherwise it adds none.  A request   *)
(* that was requested is requested after the step.                         *)
(***************************************************************************)
RejectionOf(c) ==
    [service_id |-> c.sid, provider_id |-> c.caller,
     reason |-> "provider_declined"]

C14_RejectLeavesRequest ==
    [][\A p \in Procs :
          (svc_calls[p].pc \in {"rej_find", "rej_insert"}
           /\ svc_calls'[p].pc = "idle")
          => LET c == svc_calls[p]
             IN  /\ service_requests' = service_requests
                 /\ offers' = offers
                 /\ users' = users
                 /\ \A i \in 1..Len(service_requests) :
                       service_requests[i].status = "requested"
                       => service_requests'[i].status = "requested"
                 /\ IF c.pc = "rej_insert" /\ c.service # NoRequest
                    THEN /\ BagCardinality(service_rejections')
                              = BagCardinality(service_rejections) + 1
                         /\ CopiesIn(RejectionOf(c), service_rejections')
                              = CopiesIn(RejectionOf(c), service_rejections)
                                + 1
                    ELSE service_rejections' = service_rejections]_vars

\* A provider's HTTP reject of a requested request is logged, the request
\* still being requested and without a provider.
C14_Witness ==
    \E r \in BagToSet(service_rejections) :
        /\ FindRequest(r.service_id).status = "requested"
        /\ FindRequest(r.service_id).provider_id = None
        /\ UserById(r.provider_id).role = "provider"

(***************************************************************************)
(* C15: creation is gated by the role of the caller: a create-request call *)
(* and a create-offer call carry the role the caller has in the user store *)
(* when the call is authenticated; the step that ends a create-request     *)
(* stores a request only when that role is client, the step that ends a    *)
(* create-offer stores an offer only when that role is provider, and with  *)
(* the other role the call answers 403 and no store changes.               *)
(***************************************************************************)
C15_CreationGatedByRole ==
    [][\A p \in Procs :
          /\ (rev_calls[p].pc = "idle" /\ rev_calls'[p].pc = "req_insert")
             => rev_calls'[p].role = UserById(rev_calls'[p].caller).role
          /\ (svc_calls[p].pc = "idle" /\ svc_calls'[p].pc = "offer_insert")
             => svc_calls'[p].role = UserById(svc_calls'[p].caller).role
          /\ (rev_calls[p].pc = "req_insert" /\ rev_calls'[p].pc = "idle")
             => IF rev_calls[p].role = "client"
                THEN /\ CreateRequestCode(rev_calls[p].role) = None
                     /\ Len(service_requests') = Len(service_requests) + 1
                     /\ offers' = offers
                ELSE /\ CreateRequestCode(rev_calls[p].role) = 403
                     /\ service_requests' = service_requests
                     /\ offers' = offers
          /\ (svc_calls[p].pc = "offer_insert" /\ svc_calls'[p].pc = "idle")
             => IF svc_calls[p].role = "provider"
                THEN /\ CreateOfferCode(svc_calls[p].role) = None
                     /\ Len(offers') = Len(offers) + 1
                     /\ service_requests' = service_requests
                ELSE /\ CreateOfferCode(svc_calls[p].role) = 403
                     /\ offers' = offers
                     /\ service_requests' = service_requests]_vars

\* A request and an offer are stored, and a create-offer call of a client
\* and a create-request call of a provider are about to be refused.
C15_Witness ==
    /\ Len(service_requests) > 0
    /\ Len(offers) > 0
    /\ \E p \in Procs :
          svc_calls[p].pc = "offer_insert" /\ svc_calls[p].role = "client"
    /\ \E p \in Procs :
          rev_calls[p].pc = "req_insert" /\ rev_calls[p].role = "provider"

(***************************************************************************)
(* C16: the step that stores a service request appends one request with    *)
(* status requested, the caller of the creating call as client_id and no   *)
(* provider_id; the step that stores an offer appends one offer with       *)
(* status pending and the caller of the creating call as provider_id.      *)
(***************************************************************************)
C16_NewRequestAndOfferDefaults ==
    [][/\ service_requests' # service_requests
          => \E p \in Procs :
                /\ rev_calls[p].pc = "req_insert"
                /\ rev_calls'[p].pc = "idle"
                /\ Len(service_requests') = Len(service_requests) + 1
                /\ SubSeq(service_requests', 1, Len(service_requests))
                      = service_requests
                /\ LET r == service_requests'[Len(service_requests')]
                   IN  /\ r.status = "requested"
                       /\ r.client_id = rev_calls[p].caller
                       /\ r.provider_id = None
       /\ offers' # offers
          => \E p \in Procs :
                /\ svc_calls[p].pc = "offer_insert"
                /\ svc_calls'[p].pc = "idle"
                /\ Len(offers') = Len(offers) + 1
                /\ SubSeq(offers', 1, Len(offers)) = offers
                /\ LET o == offers'[Len(offers')]
                   IN  /\ o.status = "pending"
                       /\ o.provider_id = svc_calls[p].caller
                       /\ o.service_request_id = svc_calls[p].sid]_vars

\* Requests and offers of different creators are stored.
C16_Witness ==
    /\ Len(service_requests) = MaxRequests
    /\ Len(offers) = MaxOffers
    /\ service_requests[1].client_id # service_requests[2].client_id
    /\ offers[1].provider_id # offers[2].provider_id

(***************************************************************************)
(* C18: in every reachable state each stored offer names a stored service  *)
(* request: its service_request_id is the id of a request of the store.    *)
(***************************************************************************)
C18_OffersReferenceRequests ==
    \A i \in 1..Len(offers) :
        FindRequest(offers[i].service_request_id) # NoRequest

(***************************************************************************)
(* C17, as the specification states it: list-requests returns to a client  *)
(* only requests whose client_id is the caller, and to a provider exactly  *)
(* the stored requests whose status is requested or matched.               *)
(***************************************************************************)
Eligible(c) ==
    {i \in 1..Len(service_requests) :
        IF c.role = "client"
        THEN service_requests[i].client_id = c.caller
        ELSE service_requests[i].status \in {"requested", "matched"}}

Returned(out) == {out.requests[j] : j \in 1..Len(out.requests)}

C17_ProviderListsEveryOpenRequest ==
    [][\A p \in Procs :
          (svc_calls[p].pc = "list_find" /\ svc_calls'[p].pc = "idle")
          => IF svc_calls[p].role = "client"
             THEN \A r \in Returned(list_out') :
                     r.client_id = svc_calls[p].caller
             ELSE Returned(list_out')
                     = {service_requests[i] : i \in Eligible(svc_calls[p])}]_vars

(***************************************************************************)
(* C17, amended: list-requests returns the first ListLimit (100) of the    *)
(* stored requests that match, in stored order, where a request matches    *)
(* for a client when its client_id is the caller and for a provider when   *)
(* its status is requested or matched; so it returns only matching         *)
(* requests, and all of them when there are at most 100.                   *)
(***************************************************************************)
C17_ListsFirstMatchingRequests ==
    [][\A p \in Procs :
          (svc_calls[p].pc = "list_find" /\ svc_calls'[p].pc = "idle")
          => LET E == Eligible(svc_calls[p])
                 res == list_out'.requests
             IN  /\ list_out'.caller = svc_calls[p].caller
                 /\ Len(res) = IF Cardinality(E) <= 100 THEN Cardinality(E)
                                ELSE 100
                 /\ \A j \in 1..Len(res) :
                       \E i \in E :
                          /\ Cardinality({e \in E : e <= i}) = j
                          /\ res[j] = service_requests[i]
                 /\ Cardinality(E) <= 100
                    => Returned(list_out')
                         = {service_requests[i] : i \in E}
                 /\ service_requests' = service_requests]_vars

\* A provider has been sent 100 requests of a store that holds more, and
\* none of them is past matched.
C17_Witness ==
    /\ list_out.role = "provider"
    /\ Len(list_out.requests) = 100
    /\ Len(service_requests) > 100
    /\ \A r \in Returned(list_out) : r.status \in {"requested", "matched"}

(***************************************************************************)
(* C19: the step that ends a role switch of a user (the user its token was *)
(* issued to) flips that user's stored role, from client to provider or    *)
(* from provider to client, and answers with the role stored before as     *)
(* previous_role and the role stored after as new_role; it changes no      *)
(* other field of that user and no other user's record.  Two such steps in *)
(* a row therefore restore the stored role.                                *)
(***************************************************************************)
OtherRole(role) == IF role = "client" THEN "provider" ELSE "client"

C19_RoleSwitchFlipsStoredRole ==
    [][\A p \in Procs :
          (/\ auth_calls[p].pc = "switch_role"
           /\ auth_calls'[p].pc = "idle"
           /\ auth_calls[p].iss # None)
          => LET caller == auth_calls[p].iss
                 i == FirstUser(UsersWithId(caller))
             IN  /\ i # None
                 /\ users'[i].role = OtherRole(users[i].role)
                 /\ OtherRole(users'[i].role) = users[i].role
                 /\ users' = [users EXCEPT ![i].role = users'[i].role]
                 /\ auth_out'.code = 200
                 /\ auth_out'.user.role = users[i].role
                 /\ auth_out'.detail = users'[i].role]_vars

(***************************************************************************)
(* C20: a login fails in one way whatever the cause: the step that ends a  *)
(* login whose email and password no stored user has (no user has the      *)
(* email, or the users that have it have another password) answers 401     *)
(* "Incorrect email or password" with no token and no user; every login    *)
(* that is not answered 200 is answered so; and the step changes no store. *)
(***************************************************************************)
LoginRefused(out) ==
    /\ out.op = "login"
    /\ out.code = 401
    /\ out.detail = "Incorrect email or password"
    /\ out.token = NoToken
    /\ out.user = NoUser

LoginEnds(p) ==
    \/ /\ auth_calls[p].pc = "login_verify"
       /\ auth_calls'[p].pc = "idle"
    \/ /\ auth_calls[p].pc = "idle"
       /\ auth_calls' = auth_calls
       /\ auth_out' # auth_out
       /\ auth_out'.op = "login"

LoginOf(p) == IF auth_calls[p].pc = "login_verify" THEN auth_calls[p].email
              ELSE auth_out'.email

C20_LoginFailureIsUniform ==
    /\ []((auth_out.op = "login" /\ auth_out.code # 200)
           => LoginRefused(auth_out))
    /\ [][\A p \in Procs :
             LoginEnds(p)
             => /\ users' = users
                /\ <<payment_transactions, service_requests, reviews,
                      offers, service_rejections>>'
                     = <<payment_transactions, service_requests, reviews,
                         offers, service_rejections>>
                /\ (\A pw \in Passwords : ~Registered(LoginOf(p), pw))
                   => LoginRefused(auth_out')
                /\ (/\ auth_calls[p].pc = "login_verify"
                    /\ ~Registered(auth_calls[p].email,
                                   auth_calls[p].password))
                   => LoginRefused(auth_out')]_vars

\* A login with a wrong password for the email of a stored user has been
\* refused.
C20_Witness ==
    /\ LoginRefused(auth_out)
    /\ EmailStored(auth_out.email)
    /\ ~auth_out.reg0
    /\ \E pw \in Passwords : ~Registered(auth_out.email, pw)

(***************************************************************************)
(* C21: create-review stores a review only for an existing request and a   *)
(* caller who is its client or its assigned provider.  The step that looks *)
(* the request up ends the call with 404 when no request has the id and    *)
(* with 403 when the caller is neither the client nor the provider of the  *)
(* request, storing no review and changing no rating; and every step that  *)
(* stores a review belongs to a call whose request is stored and whose     *)
(* caller is the request's client or the provider the call read.           *)
(***************************************************************************)
Participant(caller_id, r) == caller_id \in {r.client_id, r.provider_id}

C22_RevieweeIsOtherParty ==
    \A r \in BagToSet(reviews) :
        LET q == FindRequest(r.service_request_id)
        IN  /\ q # NoRequest
            /\ UserById(r.reviewee_id) # NoUser
            /\ r.reviewee_id # r.reviewer_id
            /\ r.reviewer_id = q.client_id => r.reviewee_id = q.provider_id
            /\ r.reviewer_id = q.provider_id => r.reviewee_id = q.client_id

(***************************************************************************)
(* C23: ratings stay in range.  A create-review whose rating is outside    *)
(* 1..5 is refused and stores nothing, so every stored review carries a    *)
(* rating from 1 to 5, every step that changes the review store adds one   *)
(* review with such a rating, and every user's stored rating, once set,    *)
(* lies between 1 and 5 (10 and 50 tenths).                                *)
(***************************************************************************)
C23_RatingsStayInRange ==
    /\ [](\A r \in BagToSet(reviews) : r.rating \in 1..5)
    /\ [](\A i \in 1..Len(users) :
             users[i].rating # None =>
                 /\ users[i].rating >= 10
                 /\ users[i].rating <= 50)
    /\ [][reviews' # reviews =>
             \E p \in Procs, rating \in 1..5 :
                 /\ rev_calls[p].pc = "rev_insert"
                 /\ reviews' = reviews (+) SetToBag(
                        {[service_request_id |-> rev_calls[p].sid,
                          reviewer_id |-> rev_calls[p].caller,
                          reviewee_id |-> rev_calls[p].reviewee,
                          rating |-> rating]})]_vars

\* Reviews with the lowest and the highest rating are stored and a user's
\* rating is set from them.
C23_Witness ==
    /\ \E r \in BagToSet(reviews) : r.rating = 5
    /\ \E r \in BagToSet(reviews) : r.rating = 1
    /\ \E i \in 1..Len(users) : users[i].rating # None

\* The token the store holds for user_id, NoneStr when it holds none.
StoredToken(store, user_id) ==
    IF TokensOf(store, user_id) = {} THEN NoneStr
    ELSE store[CHOOSE i \in TokensOf(store, user_id) : TRUE].push_token

\* The documents the store holds for user_id.
RecordsOf(store, user_id) == {store[i] : i \in TokensOf(store, user_id)}

(***************************************************************************)
(* C24: after any sequence of save_push_token calls each user has at most  *)
(* one push-token record; a save that succeeds leaves the user's record    *)
(* with the token it saved, a save that fails leaves the store as it was   *)
(* (so the record holds the most recent successful save), no save changes  *)
(* the records of another user, and nothing but a save changes the store.  *)
(***************************************************************************)
C24_OneTokenPerUser ==
    /\ [](\A u \in UserIds : Cardinality(TokensOf(push_tokens, u)) <= 1)
    /\ [][push_out'.op = "save" =>
             /\ push_out'.value =>
                    StoredToken(push_tokens', push_out'.user_id)
                        = push_out'.push_token
             /\ ~push_out'.value => push_tokens' = push_tokens
             /\ \A v \in UserIds \ {push_out'.user_id} :
                    RecordsOf(push_tokens', v) = RecordsOf(push_tokens, v)]_vars
    /\ [][push_out'.op # "save" => push_tokens' = push_tokens]_vars

\* User 1 holds the token of its last successful save after a later save
\* of another token failed, and user 2 holds a token of its own.
C24_Witness ==
    /\ push_out.op = "save"
    /\ push_out.user_id = 1
    /\ push_out.push_token = "t1"
    /\ ~push_out.value
    /\ StoredToken(push_tokens, 1) = "t2"
    /\ StoredToken(push_tokens, 2) = "t1"
    /\ Len(push_tokens) = 2

(***************************************************************************)
(* C25: send_push_notification never raises: for every gateway outcome     *)
(* (a 200, another status, a transport exception) it returns a boolean,    *)
(* true only for a 200 and false for an empty token list, and it changes   *)
(* no stored state.                                                        *)
(***************************************************************************)
C25_SendNeverRaises ==
    /\ [](push_out.op = "send" =>
             /\ ~push_out.raised
             /\ push_out.value \in BOOLEAN
             /\ push_out.value => push_out.status_code = 200
             /\ push_out.push_tokens = <<>> => ~push_out.value)
    /\ [][push_out'.op = "send" =>
             UNCHANGED <<push_tokens, nonPushVars>>]_vars

\* A send to a stored token returned false because the post raised.
C25_Witness ==
    /\ push_out.op = "send"
    /\ Len(push_out.push_tokens) = 1
    /\ push_out.status_code = None
    /\ ~push_out.value

\* The pairs the broadcast in slot p has before it in this step: its copy
\* of the connection map when the step begins it, what it has left when
\* the step resumes it.
PendingPairs(p) ==
    IF rt_calls[p].pc = "bc_send" THEN rt_calls[p].todo
    ELSE {<<u, active_connections[u]>> :
             u \in {v \in UserIds : /\ active_connections[v] # None
                                    /\ v # rt_calls'[p].exclude}}

\* Slot p takes a step of a broadcast.
BroadcastStep(p) ==
    /\ rt_calls'[p] # rt_calls[p]
    /\ rt_calls'[p].op \in {"broadcast", "create"}

(***************************************************************************)
(* C26: in broadcast_to_providers a send that fails never aborts the       *)
(* broadcast.  Every user connected when the broadcast began, other than   *)
(* the excluded one, gets exactly one send attempt, on the socket it had   *)
(* then; a target whose send fails is removed from the connection map; the *)
(* excluded user gets no send; and the count returned is the number of     *)
(* sends that succeeded.                                                   *)
(***************************************************************************)
C26_BroadcastSurvivesFailures ==
    /\ [](\A p \in Procs :
             LET c == rt_calls[p]
                 left == {t[1] : t \in c.todo}
             IN  c.op \in {"broadcast", "create"} =>
                    /\ c.exclude \notin c.tried
                    /\ c.sent \subseteq c.tried
                    /\ c.tried \cap left = {}
                    /\ c.tried \cup left = c.snap
                    /\ c.pc = "idle" =>
                          /\ c.tried = c.snap
                          /\ c.count = Cardinality(c.sent))
    /\ [][\A p \in Procs :
             BroadcastStep(p) =>
                /\ rt_calls[p].pc = "idle" =>
                      rt_calls'[p].snap =
                          {u \in UserIds : active_connections[u] # None}
                              \ {rt_calls'[p].exclude}
                /\ \A u \in rt_calls'[p].tried \ (IF rt_calls[p].pc = "idle"
                                                   THEN {}
                                                   ELSE rt_calls[p].tried) :
                      \E t \in PendingPairs(p) :
                         /\ t[1] = u
                         /\ u \in rt_calls'[p].sent <=> ws_calls[t[2]].open
                         /\ ~ws_calls[t[2]].open =>
                               active_connections'[u] = None]_vars

\* A broadcast that left one user out returned 1 after two attempts, one
\* of which failed.
C26_Witness ==
    \E p \in Procs :
        /\ rt_calls[p].op = "broadcast"
        /\ rt_calls[p].pc = "idle"
        /\ rt_calls[p].exclude # None
        /\ Cardinality(rt_calls[p].tried) = 2
        /\ rt_calls[p].count = 1

(***************************************************************************)
(* C29: registering a service request with the broadcaster adds it to the  *)
(* active-service map under its id and sends new_service_request to every  *)
(* user connected at that moment except the request's client; the client   *)
(* is never sent it.                                                       *)
(***************************************************************************)
C29_NewRequestToAllButClient ==
    /\ [](\A p \in Procs :
             LET c == rt_calls[p]
             IN  c.op = "create" =>
                    /\ active_services[c.sid].in_map
                    /\ active_services[c.sid].client_id = c.exclude
                    /\ active_services[c.sid].client_id \notin c.tried
                    /\ c.pc = "idle" => c.tried = c.snap)
    /\ [][\A p \in Procs :
             /\ rt_calls[p].pc = "idle"
             /\ rt_calls'[p] # rt_calls[p]
             /\ rt_calls'[p].op = "create"
             => LET sid == rt_calls'[p].sid
                IN  /\ ~active_services[sid].in_map
                    /\ active_services'[sid].in_map
                    /\ \A t \in ServiceIds \ {sid} :
                          active_services'[t] = active_services[t]
                    /\ rt_calls'[p].snap =
                          {u \in UserIds : active_connections[u] # None}
                              \ {active_services'[sid].client_id}]_vars

\* A request of a connected client was registered and the broadcast went
\* to the two other users, who were connected.
C29_Witness ==
    \E p \in Procs :
        /\ rt_calls[p].op = "create"
        /\ rt_calls[p].pc = "idle"
        /\ active_connections[rt_calls[p].exclude] # None
        /\ Cardinality(rt_calls[p].sent) = 2

\* Slot p takes the step of a call of the method op.
CallStep(p, op) ==
    /\ rt_calls'[p] # rt_calls[p]
    /\ rt_calls'[p].op = op

\* The step leaves the entries of every user but u in both maps, and the
\* active-service map, as they were.
OthersKept(u) ==
    /\ \A v \in UserIds \ {u} :
          /\ active_connections'[v] = active_connections[v]
          /\ user_locations'[v] = user_locations[v]
    /\ active_services' = active_services

(***************************************************************************)
(* C27: send_personal_message(message, u) returns true exactly when u was  *)
(* in the connection map and the send succeeded.  When u is not connected  *)
(* it returns false and nothing changes; when the send fails it returns    *)
(* false and u's entries in the connection map and the location map are    *)
(* removed.                                                                *)
(***************************************************************************)
C27_PersonalMessageResult ==
    [][\A p \in Procs :
          CallStep(p, "send") =>
             LET u == rt_calls'[p].user
                 k == active_connections[u]
             IN  /\ rt_calls'[p].ok <=> (k # None /\ ws_calls[k].open)
                 /\ OthersKept(u)
                 /\ UNCHANGED <<ws_calls, service_requests, nonRtVars>>
                 /\ k = None =>
                       /\ ~rt_calls'[p].ok
                       /\ UNCHANGED <<active_connections, user_locations>>
                 /\ rt_calls'[p].ok =>
                       UNCHANGED <<active_connections, user_locations>>
                 /\ (k # None /\ ~ws_calls[k].open) =>
                       /\ ~rt_calls'[p].ok
                       /\ active_connections'[u] = None
                       /\ user_locations'[u] = None]_vars

\* A personal message to a user whose peer had gone returned false and
\* removed the user's entries, before the user's handler noticed.
C27_Witness ==
    \E p \in Procs, k \in SocketIds :
        /\ rt_calls[p].op = "send"
        /\ ~rt_calls[p].ok
        /\ ws_calls[k].user = rt_calls[p].user
        /\ ws_calls[k].pc = "recv"
        /\ ~ws_calls[k].open
        /\ active_connections[rt_calls[p].user] = None
        /\ \E v \in UserIds : user_locations[v] # None

(***************************************************************************)
(* C28: disconnect(u) removes u's entry from the connection map and from   *)
(* the location map, changes nothing when u has no entry, and leaves the   *)
(* entries of the other users and the active-service map unchanged.        *)
(***************************************************************************)
C28_DisconnectFrame ==
    [][\A p \in Procs :
          CallStep(p, "disconnect") =>
             LET u == rt_calls'[p].user
             IN  /\ active_connections'[u] = None
                 /\ user_locations'[u] = None
                 /\ OthersKept(u)
                 /\ UNCHANGED <<ws_calls, service_requests, nonRtVars>>
                 /\ (active_connections[u] = None
                        /\ user_locations[u] = None) =>
                       UNCHANGED <<active_connections, user_locations>>]_vars

\* A user whose handler still serves an open socket was disconnected,
\* and another user keeps a connection and a location.
C28_Witness ==
    \E p \in Procs, k \in SocketIds, v \in UserIds :
        /\ rt_calls[p].op = "disconnect"
        /\ ws_calls[k].user = rt_calls[p].user
        /\ ws_calls[k].pc = "recv"
        /\ ws_calls[k].open
        /\ active_connections[rt_calls[p].user] = None
        /\ v # rt_calls[p].user
        /\ active_connections[v] # None
        /\ user_locations[v] # None

\* Some call of update_service_status has begun and not ended.
UpdateInProgress ==
    \/ \E p \in Procs : rt_calls[p].pc \in {"upd_provider", "upd_return"}
    \/ \E k \in SocketIds : ws_calls[k].pc = "acc_provider"

(***************************************************************************)
(* C30: the active-service map holds only requests that are not finished.  *)
(* Once update_service_status(id, status) has returned true with the       *)
(* status completed or cancelled, the id is not in the map; an update for  *)
(* an id the map does not hold returns false and changes nothing; and      *)
(* whenever no update is in progress, no entry of the map has the status   *)
(* completed or cancelled.                                                 *)
(***************************************************************************)
C30_OnlyLiveRequestsActive ==
    /\ [](~UpdateInProgress =>
             \A sid \in ServiceIds :
                active_services[sid].in_map =>
                   active_services[sid].status
                       \notin {"completed", "cancelled"})
    /\ [](\A p \in Procs :
             /\ rt_calls[p].op = "update"
             /\ rt_calls[p].pc = "idle"
             /\ rt_calls[p].ok
             /\ rt_calls[p].status \in {"completed", "cancelled"}
             => ~active_services[rt_calls[p].sid].in_map)
    /\ [][\A p \in Procs :
             /\ CallStep(p, "update")
             /\ rt_calls[p].pc = "idle"
             /\ ~active_services[rt_calls'[p].sid].in_map
             => /\ rt_calls'[p].pc = "idle"
                /\ ~rt_calls'[p].ok
                /\ ~rt_calls'[p].raised
                /\ UNCHANGED <<active_connections, user_locations,
                               active_services>>]_vars

\* An update cancelled the registered request and returned true, and an
\* update of the same id by the other caller returned false.
C30_Witness ==
    \E p \in Procs, q \in Procs :
        /\ rt_calls[p].op = "update"
        /\ rt_calls[p].pc = "idle"
        /\ rt_calls[p].sid = 1
        /\ rt_calls[p].status = "cancelled"
        /\ rt_calls[p].ok
        /\ rt_calls[q].op = "update"
        /\ rt_calls[q].pc = "idle"
        /\ rt_calls[q].sid = 1
        /\ ~rt_calls[q].ok
        /\ ~rt_calls[q].raised

(***************************************************************************)
(* C31: checkout never trusts an amount of the client.  A                  *)
(* create_checkout_session with a package id outside the price table       *)
(* fails without opening a remote session or storing a transaction; with   *)
(* a package of the table it stores one transaction keyed by the remote    *)
(* session id, pending and initiated, with the amount and the currency of  *)
(* the table entry; so every stored transaction has the table price of     *)
(* its package_id, and no session id has two transactions.                 *)
(***************************************************************************)
C31_AmountFromPriceTable ==
    /\ [](\A i \in 1..Len(payment_transactions) :
             LET t == payment_transactions[i]
             IN  /\ t.package_id \in DOMAIN PAYMENT_PACKAGES
                 /\ t.amount = PAYMENT_PACKAGES[t.package_id].amount
                 /\ t.currency = PAYMENT_PACKAGES[t.package_id].currency
                 /\ \A j \in 1..Len(payment_transactions) :
                       payment_transactions[j].session_id = t.session_id
                           => j = i)
    /\ [][\A p \in Procs, pkg \in PackageInputs :
             (pkg \notin DOMAIN PAYMENT_PACKAGES
                /\ CreateCheckoutStart(p, 1, pkg))
             => /\ UNCHANGED <<remote, payment_transactions>>
                /\ pay_out'.code = 400
                /\ pay_calls'[p].pc = "idle"]_vars
    /\ [][\A p \in Procs :
             (pay_calls[p].pc = "checkout_insert"
                /\ pay_calls'[p] # pay_calls[p])
             => LET c == pay_calls[p]
                    n == Len(payment_transactions')
                IN  /\ remote[c.sid] # "absent"
                    /\ n = Len(payment_transactions) + 1
                    /\ SubSeq(payment_transactions', 1, n - 1)
                          = payment_transactions
                    /\ payment_transactions'[n] =
                          [session_id |-> c.sid, user_id |-> c.uid,
                           amount |-> PAYMENT_PACKAGES[c.pkg].amount,
                           currency |-> PAYMENT_PACKAGES[c.pkg].currency,
                           package_id |-> c.pkg,
                           payment_status |-> "pending",
                           status |-> "initiated"]]_vars

\* A checkout of the deluxe package stored its transaction, and a later
\* checkout with an unknown package was refused.
C31_Witness ==
    /\ Len(payment_transactions) = 1
    /\ payment_transactions[1].package_id = "service_deluxe"
    /\ payment_transactions[1].amount = 300
    /\ pay_out.op = "checkout"
    /\ pay_out.code = 400

(***************************************************************************)
(* C39: a status update or a webhook for a session id that has no local    *)
(* transaction fails with the not-found error, 404 "Payment transaction    *)
(* not found" (a status poll for a session the gateway does not know       *)
(* fails at the gateway), and creates no transaction row; rows are created *)
(* only by create_checkout_session, one per remote session id.             *)
(***************************************************************************)
C39_UnknownSessionNotFound ==
    /\ [][\A p \in Procs :
             (/\ pay_calls[p].pc = "upd_find"
              /\ FindTxn(pay_calls[p].sid) = None
              /\ pay_calls'[p] # pay_calls[p])
             => /\ pay_calls'[p].pc = "idle"
                /\ pay_out'.op = pay_calls[p].op
                /\ pay_out'.sid = pay_calls[p].sid
                /\ pay_out'.code = 404
                /\ payment_transactions' = payment_transactions]_vars
    /\ [][\A p \in Procs, sid \in Sessions :
             (remote[sid] = "absent" /\ GetCheckoutStatusStart(p, sid))
             => /\ pay_out'.code = 400
                /\ pay_calls'[p].pc = "idle"
                /\ payment_transactions' = payment_transactions]_vars
    /\ [][Len(payment_transactions') # Len(payment_transactions) =>
             \E p \in Procs :
                /\ pay_calls[p].op = "checkout"
                /\ pay_calls[p].pc = "checkout_insert"
                /\ pay_calls'[p].pc = "idle"
                /\ FindTxn(pay_calls[p].sid) = None
                /\ payment_transactions' =
                      Append(payment_transactions,
                             payment_transactions'[
                                 Len(payment_transactions) + 1])
                /\ payment_transactions'[Len(payment_transactions) + 1]
                      .session_id = pay_calls[p].sid]_vars
    /\ [](\A i, j \in 1..Len(payment_transactions) :
             payment_transactions[i].session_id
                 = payment_transactions[j].session_id => i = j)

(***************************************************************************)
(* C32: no operation of the connection manager is suspended between a      *)
(* check of one of its maps and the act that relies on it: however         *)
(* concurrent update_service_status calls on one service id interleave,    *)
(* two calls with a terminal status included, every call ends by           *)
(* returning true or false and none fails on a missing map entry.          *)
(***************************************************************************)
C32_UpdatesNeverMissEntry ==
    \A p \in Procs :
        (rt_calls[p].op = "update" /\ rt_calls[p].pc = "idle")
            => ~rt_calls[p].raised

\* The handler loop of socket k runs for user U and the peer holds its end.
LiveHandler(k, U) ==
    /\ ws_calls[k].user = U
    /\ ws_calls[k].pc \notin {"free", "accept", "ended"}
    /\ ws_calls[k].open

(***************************************************************************)
(* C33: a user with a live connection handler is registered.  In every     *)
(* reachable state, if some websocket handler loop of user U still runs on *)
(* an open socket, the connection map holds U, mapped to an open socket;   *)
(* also when U connects a second time and the earlier connection then      *)
(* ends, and when a send on U's stale socket fails after U has             *)
(* reconnected.                                                            *)
(***************************************************************************)
C33_LiveHandlerRegistered ==
    \A U \in UserIds :
        (\E k \in SocketIds : LiveHandler(k, U))
            => /\ active_connections[U] # None
               /\ ws_calls[active_connections[U]].open

\* C34: the users with a location entry are users of the connection map:
\* no location is recorded for a user without a registered connection, and
\* none is retained once the user's connection has been removed.
C34_LocationsOfConnected ==
    \A U \in UserIds :
        user_locations[U] # None => active_connections[U] # None

\* C35: acceptance is exclusive: once a stored request has a provider, no
\* step of an accept, over HTTP or a websocket, gives it another one, so of
\* the accepts of one request by different users at most one takes effect.
C35_AcceptanceExclusive ==
    [][\A i \in 1..Len(service_requests) :
          service_requests[i].provider_id # None
              => service_requests'[i].provider_id
                     = service_requests[i].provider_id]_vars

\* C36: a stored request that has a provider has another user as its client:
\* provider_id differs from client_id, whatever roles the users have
\* switched to and whichever accept assigned the provider.
C36_ProviderIsNotClient ==
    \A i \in 1..Len(service_requests) :
        service_requests[i].provider_id # None
            => service_requests[i].provider_id # service_requests[i].client_id

\* C37: a stored request that is accepted, in progress or completed has a
\* provider, so no status update by its client moves a request without a
\* provider into one of these statuses.
C37_ProgressNeedsProvider ==
    \A i \in 1..Len(service_requests) :
        service_requests[i].status \in {"accepted", "in_progress", "completed"}
            => service_requests[i].provider_id # None

\* C38: a stored request becomes accepted, or gets its provider, only in
\* the write of a websocket accept whose update_service_status succeeded on
\* the registered snapshot: an accept of an id that is not in the
\* active-service map leaves the stored request as it was.
C38_AcceptWritesOnSuccess ==
    [][\A i \in 1..Len(service_requests) :
          (/\ service_requests'[i] # service_requests[i]
           /\ service_requests'[i].status = "accepted")
              => \E k \in SocketIds :
                    /\ ws_calls[k].pc = "acc_db"
                    /\ ws_calls[k].sid = service_requests[i].id]_vars

==============================================================================
